---- MODULE Spec2Model ----
(***************************************************************************)
(* Model of sample_project.algorithms.primes: the sieve of Eratosthenes    *)
(* and the operations built on it (is_prime, sum_primes,                   *)
(* get_all_primes_up_to, prime_factors, sum_primes_using_sieve).           *)
(*                                                                         *)
(* A call is a frame: the operation, its argument, its position (pc) and   *)
(* the local variables of the function bodies on the call path.  Every     *)
(* statement of the source is one step operator from frame to frame; the   *)
(* actions apply the step operators to the active frame, and Run iterates  *)
(* them to the end of the call, which gives each function as an operator.  *)
(* A Python list is a sequence; Python index k is position k + 1.          *)
(***************************************************************************)
EXTENDS Integers, Sequences, FiniteSets

VARIABLES frame, steps, lcall, threads, store, app

vars == <<frame, steps, lcall, threads, store, app>>

\* Largest argument a caller passes, and how far below zero arguments go.
MaxN == 50
MaxNeg == 3

\* The statements of a call are counted up to StepCap.
StepCap == 3

\* Lists passed to the list functions: at most MaxLen elements, each
\* in -1..MaxVal.
MaxLen == 4
MaxVal == 2

\* Largest argument passed by callers that run side by side or one call
\* after another on lists they kept.
MaxConcN == 5

\* The demos draw their random vectors from the samples 0..MaxSeed.
MaxSeed == 2

Args == (0 - MaxNeg)..MaxN

\* ------------------------------------------------------------------ lists

\* list[k] and list[k] = v are defined for -len(list) <= k < len(list);
\* any other index raises IndexError.
InRange(list, k) == 0 - Len(list) <= k /\ k < Len(list)

\* Position of Python index k: 0-based, a negative index counts from the end.
Pos(list, k) == IF k < 0 THEN Len(list) + k + 1 ELSE k + 1

\* list[k]
At(list, k) == list[Pos(list, k)]

\* list[k] = v
SetAt(list, k, v) == [list EXCEPT ![Pos(list, k)] = v]

\* [v] * k ; a count k <= 0 gives the empty list.
Repeat(v, k) == [x \in 1..k |-> v]

\* ---------------------------------------------------------------- results

NoResult == [kind |-> "none", val |-> <<>>, msg |-> <<>>]

\* return v
Ok(v) == [kind |-> "ok", val |-> <<v>>, msg |-> <<>>]

\* raise ValueError(f"{text}{n}"): the message is the text followed by the
\* formatted value.
ValueError(text, n) == [kind |-> "ValueError", val |-> <<>>, msg |-> <<text, n>>]

\* The IndexError of a list index out of range.
IndexError == [kind |-> "IndexError", val |-> <<>>, msg |-> <<"list index out of range">>]

\* The IndexError of an assignment to a list index out of range.
IndexErrorAssignment ==
    [kind |-> "IndexError", val |-> <<>>,
     msg |-> <<"list assignment index out of range">>]

Operations ==
    {"generate_sieve", "is_prime", "sum_primes", "get_all_primes_up_to",
     "prime_factors", "sum_primes_using_sieve"}

\* First statement of each function body.
Entry(op) ==
    CASE op = "generate_sieve" -> "gs_guard"
      [] op = "is_prime" -> "ip_guard"
      [] op = "sum_primes" -> "sp_guard"
      [] op = "get_all_primes_up_to" -> "gp_guard"
      [] op = "prime_factors" -> "pf_guard"
      [] op = "sum_primes_using_sieve" -> "ss_guard"

\* No call is active.
Idle ==
    [op |-> "none", arg |-> 0, pc |-> "idle", cont |-> "idle",
     n |-> 0, sieve |-> <<>>, total |-> 0, primes |-> <<>>, factors |-> <<>>,
     i |-> 0,
     g_n |-> 0, is_prime |-> <<>>, g_i |-> 0, g_j |-> 0,
     ret |-> NoResult]

\* The frame of a call op(n) before its first statement: the parameter is
\* bound, no local exists yet.  generate_sieve's parameter and locals are
\* the g_ fields and is_prime, those of the calling function the others.
Start(op, n) ==
    IF op = "generate_sieve"
    THEN [Idle EXCEPT !.op = op, !.arg = n, !.pc = Entry(op), !.cont = "done",
                      !.g_n = n]
    ELSE [Idle EXCEPT !.op = op, !.arg = n, !.pc = Entry(op), !.cont = "done",
                      !.n = n]

\* An exception nobody catches ends the call.
Raise(f, err) == [f EXCEPT !.ret = err, !.pc = "done"]

\* return v from the called operation itself.
Return(f, v) == [f EXCEPT !.ret = Ok(v), !.pc = "done"]

\* The statement g indexes list with k: it raises IndexError when k is out
\* of range, else it has the effect g.
Indexing(f, list, k, g) == IF InRange(list, k) THEN g ELSE Raise(f, IndexError)

\* The statement g assigns to list[k]: it raises IndexError when k is out
\* of range, else it has the effect g.
Assigning(f, list, k, g) ==
    IF InRange(list, k) THEN g ELSE Raise(f, IndexErrorAssignment)

\* sieve = generate_sieve(m), to continue at cont.
CallSieve(f, m, cont) ==
    [f EXCEPT !.g_n = m, !.cont = cont, !.pc = "gs_guard"]

\* return table from generate_sieve: to the caller of the module when
\* generate_sieve is the operation called, else into the caller's sieve.
SieveReturn(f, table) ==
    IF f.op = "generate_sieve"
    THEN Return(f, table)
    ELSE [f EXCEPT !.sieve = table, !.pc = f.cont,
                   !.g_n = 0, !.is_prime = <<>>, !.g_i = 0, !.g_j = 0]

\* --------------------------------------------------------- generate_sieve

\* if n < 0: raise ValueError(f"Limit cannot be negative: {n}")
gs_guard(f) ==
    IF f.g_n < 0
    THEN Raise(f, ValueError("Limit cannot be negative: ", f.g_n))
    ELSE [f EXCEPT !.pc = "gs_small"]

\* if n < 2: return [False] * (n + 1)
gs_small(f) ==
    IF f.g_n < 2
    THEN SieveReturn(f, Repeat(FALSE, f.g_n + 1))
    ELSE [f EXCEPT !.pc = "gs_alloc"]

\* Variant of the statement below that keeps the table of the call before
\* instead of creating one.
gs_alloc_reuse(f) == [f EXCEPT !.g_i = 2, !.pc = "gs_init"]

\* is_prime = [False] * (n + 1), and the iterator of range(2, n + 1)
gs_alloc(f) ==
    [f EXCEPT !.is_prime = Repeat(FALSE, f.g_n + 1), !.g_i = 2, !.pc = "gs_init"]

\* for i in range(2, n + 1): is_prime[i] = True
gs_init(f) ==
    IF f.g_i < f.g_n + 1
    THEN Assigning(f, f.is_prime, f.g_i,
             [f EXCEPT !.is_prime = SetAt(@, f.g_i, TRUE), !.g_i = @ + 1])
    ELSE [f EXCEPT !.pc = "gs_start"]

\* i = 2
gs_start(f) == [f EXCEPT !.g_i = 2, !.pc = "gs_outer"]

\* Variant of the loop test below with a strict bound.
gs_outer_strict(f) ==
    IF f.g_i * f.g_i < f.g_n
    THEN [f EXCEPT !.pc = "gs_test"]
    ELSE [f EXCEPT !.pc = "gs_return"]

\* while i * i <= n:
gs_outer(f) ==
    IF f.g_i * f.g_i <= f.g_n
    THEN [f EXCEPT !.pc = "gs_test"]
    ELSE [f EXCEPT !.pc = "gs_return"]

\* Variant of the statement below that starts marking after the square.
gs_test_skip_square(f) ==
    Indexing(f, f.is_prime, f.g_i,
        IF At(f.is_prime, f.g_i)
        THEN [f EXCEPT !.g_j = f.g_i * f.g_i + f.g_i, !.pc = "gs_inner"]
        ELSE [f EXCEPT !.pc = "gs_next"])

\* if is_prime[i]: j = i * i
gs_test(f) ==
    Indexing(f, f.is_prime, f.g_i,
        IF At(f.is_prime, f.g_i)
        THEN [f EXCEPT !.g_j = f.g_i * f.g_i, !.pc = "gs_inner"]
        ELSE [f EXCEPT !.pc = "gs_next"])

\* Variant of the loop below that steps by 2 * i.
gs_inner_double_step(f) ==
    IF f.g_j <= f.g_n
    THEN Assigning(f, f.is_prime, f.g_j,
             [f EXCEPT !.is_prime = SetAt(@, f.g_j, FALSE), !.g_j = @ + 2 * f.g_i])
    ELSE [f EXCEPT !.pc = "gs_next"]

\* while j <= n: is_prime[j] = False; j += i
gs_inner(f) ==
    IF f.g_j <= f.g_n
    THEN Assigning(f, f.is_prime, f.g_j,
             [f EXCEPT !.is_prime = SetAt(@, f.g_j, FALSE), !.g_j = @ + f.g_i])
    ELSE [f EXCEPT !.pc = "gs_next"]

\* i += 1
gs_next(f) == [f EXCEPT !.g_i = @ + 1, !.pc = "gs_outer"]

\* return is_prime
gs_return(f) == SieveReturn(f, f.is_prime)

\* --------------------------------------------------------------- is_prime

\* Variant of the guard below that also turns 2 away.
ip_guard_le2(f) ==
    IF f.n <= 2
    THEN Return(f, FALSE)
    ELSE CallSieve(f, f.n, "ip_lookup")

\* if n < 2: return False ; else sieve = generate_sieve(n)
ip_guard(f) ==
    IF f.n < 2
    THEN Return(f, FALSE)
    ELSE CallSieve(f, f.n, "ip_lookup")

\* return sieve[n]
ip_lookup(f) == Indexing(f, f.sieve, f.n, Return(f, At(f.sieve, f.n)))

\* ------------------------------------------------------------- sum_primes

\* Variant of the guard below that leaves the check to generate_sieve.
sp_guard_defer(f) ==
    IF f.n < 0
    THEN CallSieve(f, f.n - 1, "sp_init")
    ELSE [f EXCEPT !.pc = "sp_small"]

\* if n < 0: raise ValueError(f"Upper bound cannot be negative: {n}")
sp_guard(f) ==
    IF f.n < 0
    THEN Raise(f, ValueError("Upper bound cannot be negative: ", f.n))
    ELSE [f EXCEPT !.pc = "sp_small"]

\* Variant of the early return below with the bound one too high.
sp_small_le3(f) ==
    IF f.n <= 3
    THEN Return(f, 0)
    ELSE CallSieve(f, f.n - 1, "sp_init")

\* Variant of the statement below that builds the sieve one entry short.
sp_small_short_sieve(f) ==
    IF f.n <= 2
    THEN Return(f, 0)
    ELSE CallSieve(f, f.n - 2, "sp_init")

\* if n <= 2: return 0 ; else sieve = generate_sieve(n - 1)
sp_small(f) ==
    IF f.n <= 2
    THEN Return(f, 0)
    ELSE CallSieve(f, f.n - 1, "sp_init")

\* total = 0, and the iterator of range(2, n)
sp_init(f) == [f EXCEPT !.total = 0, !.i = 2, !.pc = "sp_loop"]

\* for i in range(2, n): if sieve[i]: total += i
sp_loop(f) ==
    IF f.i < f.n
    THEN Indexing(f, f.sieve, f.i,
             [f EXCEPT !.total = IF At(f.sieve, f.i) THEN @ + f.i ELSE @,
                       !.i = @ + 1])
    ELSE [f EXCEPT !.pc = "sp_return"]

\* return total
sp_return(f) == Return(f, f.total)

\* --------------------------------------------------- get_all_primes_up_to

\* if n < 0: raise ValueError(f"Upper bound cannot be negative: {n}")
gp_guard(f) ==
    IF f.n < 0
    THEN Raise(f, ValueError("Upper bound cannot be negative: ", f.n))
    ELSE [f EXCEPT !.pc = "gp_alloc"]

\* Variant of the statement below that keeps appending to the list of the
\* call before instead of creating a list.
gp_alloc_reuse(f) == [f EXCEPT !.pc = "gp_small"]

\* primes = []
gp_alloc(f) == [f EXCEPT !.primes = <<>>, !.pc = "gp_small"]

\* if n < 2: return primes ; else sieve = generate_sieve(n)
gp_small(f) ==
    IF f.n < 2
    THEN Return(f, f.primes)
    ELSE CallSieve(f, f.n, "gp_for")

\* the iterator of range(2, n + 1)
gp_for(f) == [f EXCEPT !.i = 2, !.pc = "gp_loop"]

\* Variant of the loop below over range(2, n).
gp_loop_exclusive(f) ==
    IF f.i < f.n
    THEN Indexing(f, f.sieve, f.i,
             [f EXCEPT !.primes = IF At(f.sieve, f.i) THEN Append(@, f.i) ELSE @,
                       !.i = @ + 1])
    ELSE [f EXCEPT !.pc = "gp_return"]

\* for i in range(2, n + 1): if sieve[i]: primes.append(i)
gp_loop(f) ==
    IF f.i < f.n + 1
    THEN Indexing(f, f.sieve, f.i,
             [f EXCEPT !.primes = IF At(f.sieve, f.i) THEN Append(@, f.i) ELSE @,
                       !.i = @ + 1])
    ELSE [f EXCEPT !.pc = "gp_return"]

\* return primes
gp_return(f) == Return(f, f.primes)

\* ---------------------------------------------------------- prime_factors

\* Variant of the guard below that lets 0 through.
pf_guard_negative_only(f) ==
    IF f.n < 0
    THEN Raise(f, ValueError("Number must be positive: ", f.n))
    ELSE [f EXCEPT !.pc = "pf_alloc"]

\* if n <= 0: raise ValueError(f"Number must be positive: {n}")
pf_guard(f) ==
    IF f.n <= 0
    THEN Raise(f, ValueError("Number must be positive: ", f.n))
    ELSE [f EXCEPT !.pc = "pf_alloc"]

\* factors = []
pf_alloc(f) == [f EXCEPT !.factors = <<>>, !.pc = "pf_start"]

\* i = 2
pf_start(f) == [f EXCEPT !.i = 2, !.pc = "pf_outer"]

\* while i * i <= n:
pf_outer(f) ==
    IF f.i * f.i <= f.n
    THEN [f EXCEPT !.pc = "pf_inner"]
    ELSE [f EXCEPT !.pc = "pf_rest"]

\* Variant of the loop below that divides i out once (if for while).
pf_inner_once(f) ==
    IF f.n % f.i = 0
    THEN [f EXCEPT !.factors = Append(@, f.i), !.n = @ \div f.i, !.pc = "pf_next"]
    ELSE [f EXCEPT !.pc = "pf_next"]

\* while n % i == 0: factors.append(i); n //= i
pf_inner(f) ==
    IF f.n % f.i = 0
    THEN [f EXCEPT !.factors = Append(@, f.i), !.n = @ \div f.i]
    ELSE [f EXCEPT !.pc = "pf_next"]

\* Variant of the statement below that leaves i as it is.
pf_next_stuck(f) == [f EXCEPT !.pc = "pf_outer"]

\* Variant of the statement below that goes on to the next odd or even
\* number (i += 2).
pf_next_by_two(f) == [f EXCEPT !.i = @ + 2, !.pc = "pf_outer"]

\* i += 1
pf_next(f) == [f EXCEPT !.i = @ + 1, !.pc = "pf_outer"]

\* if n > 1: factors.append(n)
pf_rest(f) ==
    IF f.n > 1
    THEN [f EXCEPT !.factors = Append(@, f.n), !.pc = "pf_return"]
    ELSE [f EXCEPT !.pc = "pf_return"]

\* return factors
pf_return(f) == Return(f, f.factors)

\* ------------------------------------------------- sum_primes_using_sieve

\* if n < 0: raise ValueError(f"Upper limit cannot be negative: {n}")
ss_guard(f) ==
    IF f.n < 0
    THEN Raise(f, ValueError("Upper limit cannot be negative: ", f.n))
    ELSE [f EXCEPT !.pc = "ss_small"]

\* Variant of the early return below that also returns 0 for 2 and 3.
ss_small_le3(f) ==
    IF f.n <= 3
    THEN Return(f, 0)
    ELSE CallSieve(f, f.n - 1, "ss_init")

\* if n < 2: return 0 ; else sieve = generate_sieve(n - 1)
ss_small(f) ==
    IF f.n < 2
    THEN Return(f, 0)
    ELSE CallSieve(f, f.n - 1, "ss_init")

\* total = 0, and the iterator of range(2, n)
ss_init(f) == [f EXCEPT !.total = 0, !.i = 2, !.pc = "ss_loop"]

\* for i in range(2, n): if sieve[i]: total += i
ss_loop(f) ==
    IF f.i < f.n
    THEN Indexing(f, f.sieve, f.i,
             [f EXCEPT !.total = IF At(f.sieve, f.i) THEN @ + f.i ELSE @,
                       !.i = @ + 1])
    ELSE [f EXCEPT !.pc = "ss_return"]

\* return total
ss_return(f) == Return(f, f.total)

\* ------------------------------------------------------------------ steps

\* The statement at the frame's position.
Step(f) ==
    CASE f.pc = "gs_guard" -> gs_guard(f)
      [] f.pc = "gs_small" -> gs_small(f)
      [] f.pc = "gs_alloc" -> gs_alloc(f)
      [] f.pc = "gs_init" -> gs_init(f)
      [] f.pc = "gs_start" -> gs_start(f)
      [] f.pc = "gs_outer" -> gs_outer(f)
      [] f.pc = "gs_test" -> gs_test(f)
      [] f.pc = "gs_inner" -> gs_inner(f)
      [] f.pc = "gs_next" -> gs_next(f)
      [] f.pc = "gs_return" -> gs_return(f)
      [] f.pc = "ip_guard" -> ip_guard(f)
      [] f.pc = "ip_lookup" -> ip_lookup(f)
      [] f.pc = "sp_guard" -> sp_guard(f)
      [] f.pc = "sp_small" -> sp_small(f)
      [] f.pc = "sp_init" -> sp_init(f)
      [] f.pc = "sp_loop" -> sp_loop(f)
      [] f.pc = "sp_return" -> sp_return(f)
      [] f.pc = "gp_guard" -> gp_guard(f)
      [] f.pc = "gp_alloc" -> gp_alloc(f)
      [] f.pc = "gp_small" -> gp_small(f)
      [] f.pc = "gp_for" -> gp_for(f)
      [] f.pc = "gp_loop" -> gp_loop(f)
      [] f.pc = "gp_return" -> gp_return(f)
      [] f.pc = "pf_guard" -> pf_guard(f)
      [] f.pc = "pf_alloc" -> pf_alloc(f)
      [] f.pc = "pf_start" -> pf_start(f)
      [] f.pc = "pf_outer" -> pf_outer(f)
      [] f.pc = "pf_inner" -> pf_inner(f)
      [] f.pc = "pf_next" -> pf_next(f)
      [] f.pc = "pf_rest" -> pf_rest(f)
      [] f.pc = "pf_return" -> pf_return(f)
      [] f.pc = "ss_guard" -> ss_guard(f)
      [] f.pc = "ss_small" -> ss_small(f)
      [] f.pc = "ss_init" -> ss_init(f)
      [] f.pc = "ss_loop" -> ss_loop(f)
      [] f.pc = "ss_return" -> ss_return(f)

\* The frame at the end of the call.
RECURSIVE Run(_)
Run(f) == IF f.pc = "done" THEN f ELSE Run(Step(f))

generate_sieve(n) == Run(Start("generate_sieve", n)).ret

is_prime(n) == Run(Start("is_prime", n)).ret

sum_primes(n) == Run(Start("sum_primes", n)).ret

get_all_primes_up_to(n) == Run(Start("get_all_primes_up_to", n)).ret

prime_factors(n) == Run(Start("prime_factors", n)).ret

sum_primes_using_sieve(n) == Run(Start("sum_primes_using_sieve", n)).ret

\* -------------------------------------------------------------------------
\* algorithms/sort.py and datastructures/vector.py: functions on lists.
\* An argument that may be None is <<>> for None and <<list>> for a list.
\* The outcome of a call is what it returns or raises (ret), the argument
\* list as the caller finds it after the call (data), and whether the
\* returned list is the argument object itself (same).
\* -------------------------------------------------------------------------

None == <<>>

Some(list) == <<list>>

\* raise TypeError(text)
TypeError(text) == [kind |-> "TypeError", val |-> <<>>, msg |-> <<text>>]

\* raise ValueError(f"..."), the message given by its parts.
ValueErrorOf(parts) == [kind |-> "ValueError", val |-> <<>>, msg |-> parts]

Outcome(ret, data, same) == [ret |-> ret, data |-> data, same |-> same]

\* list.copy(), list[:k]
Copy(list) == list

Prefix(list, k) == SubSeq(list, 1, IF k < Len(list) THEN k ELSE Len(list))

\* a[i], a[j] = a[j], a[i]
Swap(list, i, j) ==
    [list EXCEPT ![Pos(list, i)] = At(list, j), ![Pos(list, j)] = At(list, i)]

\* sorted(list): the elements in ascending order (built by insertion).
RECURSIVE InsertAscending(_, _)
InsertAscending(x, list) ==
    IF list = <<>> THEN <<x>>
    ELSE IF x < Head(list) THEN <<x>> \o list
    ELSE <<Head(list)>> \o InsertAscending(x, Tail(list))

RECURSIVE sorted(_)
sorted(list) ==
    IF list = <<>> THEN <<>>
    ELSE InsertAscending(list[Len(list)], sorted(SubSeq(list, 1, Len(list) - 1)))

\* sorted(list, reverse=True)
sorted_reverse(list) ==
    LET asc == sorted(list)
    IN  [k \in 1..Len(asc) |-> asc[Len(asc) + 1 - k]]

\* ---------------------------------------------- algorithms.sort.sort_vector

\* Variant of the function below that sorts the argument in place and
\* returns it.
sort_sort_vector_in_place(data) ==
    IF data = None
    THEN Outcome(TypeError("List cannot be None"), data, FALSE)
    ELSE Outcome(Ok(sorted(data[1])), Some(sorted(data[1])), TRUE)

\* if data is None: raise TypeError ; return sorted(data)
sort_sort_vector(data) ==
    IF data = None
    THEN Outcome(TypeError("List cannot be None"), data, FALSE)
    ELSE Outcome(Ok(sorted(data[1])), data, FALSE)

\* --------------------------------------- datastructures.vector.sort_vector

\* if vector is None: raise TypeError ; return sorted(vector)
vector_sort_vector(vector) ==
    IF vector = None
    THEN Outcome(TypeError("ArrayList cannot be null"), vector, FALSE)
    ELSE Outcome(Ok(sorted(vector[1])), vector, FALSE)

\* --------------------------------------------------- dutch_flag_partition
\* The loop state is d = [result, next_value, i].

\* Variant of the loop body below that also moves the elements equal to
\* the pivot.
dutch_less_or_equal(d, pivot) ==
    IF At(d.result, d.i) <= pivot
    THEN [d EXCEPT !.result = Swap(@, d.i, d.next_value),
                   !.next_value = @ + 1, !.i = @ + 1]
    ELSE [d EXCEPT !.i = @ + 1]

\* if result[i] < pivot: swap result[i], result[next_value]; next_value += 1
dutch_less(d, pivot) ==
    IF At(d.result, d.i) < pivot
    THEN [d EXCEPT !.result = Swap(@, d.i, d.next_value),
                   !.next_value = @ + 1, !.i = @ + 1]
    ELSE [d EXCEPT !.i = @ + 1]

\* if result[i] == pivot: swap result[i], result[next_value]; next_value += 1
dutch_equal(d, pivot) ==
    IF At(d.result, d.i) = pivot
    THEN [d EXCEPT !.result = Swap(@, d.i, d.next_value),
                   !.next_value = @ + 1, !.i = @ + 1]
    ELSE [d EXCEPT !.i = @ + 1]

\* for i in range(len(result)): ...
RECURSIVE dutch_first_pass(_, _)
dutch_first_pass(d, pivot) ==
    IF d.i < Len(d.result)
    THEN dutch_first_pass(dutch_less(d, pivot), pivot)
    ELSE d

\* for i in range(next_value, len(result)): ...
RECURSIVE dutch_second_pass(_, _)
dutch_second_pass(d, pivot) ==
    IF d.i < Len(d.result)
    THEN dutch_second_pass(dutch_equal(d, pivot), pivot)
    ELSE d

dutch_flag_partition(arr, pivot) ==
    IF arr = None
    THEN Outcome(TypeError("List cannot be None"), arr, FALSE)
    ELSE LET d0 == [result |-> Copy(arr[1]), next_value |-> 0, i |-> 0]
             d1 == dutch_first_pass(d0, pivot)
             d2 == dutch_second_pass([d1 EXCEPT !.i = d1.next_value], pivot)
         IN  Outcome(Ok(d2.result), arr, FALSE)

\* ------------------------------------------------------------------ max_n
\* heapq keeps min_heap a binary min-heap in a list: the children of
\* position pos are at 2 * pos + 1 and 2 * pos + 2, and the root
\* min_heap[0] is a smallest element.

\* heapq._siftdown(heap, startpos, pos) with newitem taken out of heap[pos]:
\* parents larger than newitem move down, then newitem is put in.
RECURSIVE siftdown_loop(_, _, _, _)
siftdown_loop(heap, startpos, pos, newitem) ==
    IF pos > startpos
    THEN LET parentpos == (pos - 1) \div 2
             parent == At(heap, parentpos)
         IN  IF newitem < parent
             THEN siftdown_loop(SetAt(heap, pos, parent), startpos, parentpos, newitem)
             ELSE SetAt(heap, pos, newitem)
    ELSE SetAt(heap, pos, newitem)

siftdown(heap, startpos, pos) == siftdown_loop(heap, startpos, pos, At(heap, pos))

\* The loop of heapq._siftup: the smaller child moves up until a leaf is
\* reached; the result is the list and the position of the leaf.
RECURSIVE siftup_loop(_, _)
siftup_loop(heap, pos) ==
    LET endpos == Len(heap)
        childpos == 2 * pos + 1
        rightpos == childpos + 1
    IN  IF childpos < endpos
        THEN LET child == IF rightpos < endpos
                             /\ ~(At(heap, childpos) < At(heap, rightpos))
                          THEN rightpos ELSE childpos
             IN  siftup_loop(SetAt(heap, pos, At(heap, child)), child)
        ELSE [heap |-> heap, pos |-> pos]

\* heapq._siftup(heap, pos)
siftup(heap, pos) ==
    LET newitem == At(heap, pos)
        leaf == siftup_loop(heap, pos)
    IN  siftdown(SetAt(leaf.heap, leaf.pos, newitem), pos, leaf.pos)

\* for i in reversed(range(n // 2)): _siftup(x, i)
RECURSIVE heapify_loop(_, _)
heapify_loop(x, i) == IF i >= 0 THEN heapify_loop(siftup(x, i), i - 1) ELSE x

\* heapq.heapify(x)
heapify(x) == heapify_loop(x, (Len(x) \div 2) - 1)

\* heapq.heapreplace(heap, item): heap[0] = item ; _siftup(heap, 0)
heapreplace(heap, item) == siftup(SetAt(heap, 0, item), 0)

\* Neither n < 0 nor (n == 0 or n > len(data)).
max_n_accepts(data, n) == ~(n < 0) /\ ~(n = 0 \/ n > Len(data))

\* Variant of the test below that also takes an element equal to the root.
max_n_replaces_or_equal(data, min_heap, i) == At(data, i) >= At(min_heap, 0)

\* data[i] > min_heap[0]
max_n_replaces(data, min_heap, i) == At(data, i) > At(min_heap, 0)

\* Variant of the loop body below that replaces the root by every element.
max_n_scan_always(data, min_heap, i) == heapreplace(min_heap, At(data, i))

\* if data[i] > min_heap[0]: heapq.heapreplace(min_heap, data[i])
max_n_scan(data, min_heap, i) ==
    IF max_n_replaces(data, min_heap, i)
    THEN heapreplace(min_heap, At(data, i))
    ELSE min_heap

\* for i in range(n, len(data)): ...
RECURSIVE max_n_loop(_, _, _)
max_n_loop(data, min_heap, i) ==
    IF i < Len(data)
    THEN max_n_loop(data, max_n_scan(data, min_heap, i), i + 1)
    ELSE min_heap

max_n(data, n) ==
    IF data = None
    THEN Outcome(TypeError("List cannot be None"), data, FALSE)
    ELSE IF n < 0
    THEN Outcome(ValueError("n cannot be negative: ", n), data, FALSE)
    ELSE IF ~max_n_accepts(data[1], n)
    THEN Outcome(ValueErrorOf(<<"n must be between 1 and list size (",
                                Len(data[1]), "), got: ", n>>), data, FALSE)
    ELSE LET min_heap == heapify(Copy(Prefix(data[1], n)))
         IN  Outcome(Ok(sorted_reverse(max_n_loop(data[1], min_heap, n))),
                     data, FALSE)

\* ---------------------------------------------------------- rotate_vector
\* The loop state is r = [result, i, error].

\* len(vector) > 0 and positions >= len(vector)
rotate_rejects(vector, positions) ==
    Len(vector) > 0 /\ positions >= Len(vector)

\* Variant of the loop body below that puts the element in front of the
\* result.
rotate_append_front(vector, r) ==
    IF InRange(vector, r.i)
    THEN [r EXCEPT !.result = <<At(vector, r.i)>> \o @, !.i = @ + 1]
    ELSE [r EXCEPT !.error = TRUE]

\* result.append(vector[i])
rotate_append(vector, r) ==
    IF InRange(vector, r.i)
    THEN [r EXCEPT !.result = Append(@, At(vector, r.i)), !.i = @ + 1]
    ELSE [r EXCEPT !.error = TRUE]

\* for i in range(..., stop): result.append(vector[i])
RECURSIVE rotate_loop(_, _, _)
rotate_loop(vector, r, stop) ==
    IF ~r.error /\ r.i < stop
    THEN rotate_loop(vector, rotate_append(vector, r), stop)
    ELSE r

rotate_vector(vector, positions) ==
    IF vector = None
    THEN Outcome(TypeError("ArrayList cannot be null"), vector, FALSE)
    ELSE IF positions < 0
    THEN Outcome(ValueError("Rotation amount cannot be negative, got: ",
                            positions), vector, FALSE)
    ELSE IF rotate_rejects(vector[1], positions)
    THEN Outcome(ValueErrorOf(<<"Rotation amount must be less than size, got: ",
                                positions, " for size: ", Len(vector[1])>>),
                 vector, FALSE)
    ELSE LET r0 == [result |-> <<>>, i |-> positions, error |-> FALSE]
             r1 == rotate_loop(vector[1], r0, Len(vector[1]))
             r2 == rotate_loop(vector[1], [r1 EXCEPT !.i = 0], positions)
         IN  IF r2.error
             THEN Outcome(IndexError, vector, FALSE)
             ELSE Outcome(Ok(r2.result), vector, FALSE)

\* ------------------------------------------------------ linked_list.slice
\* A deque is the sequence of its elements.

\* raise IndexError(f"..."), the message given by its parts.
IndexErrorOf(parts) == [kind |-> "IndexError", val |-> <<>>, msg |-> parts]

\* Variant of the extraction below that takes the elements from the front.
slice_items_from_front(tmp, start, end) == SubSeq(tmp, 1, end - start)

\* tmp[start:end] for 0 <= start <= end <= len(tmp)
slice_items(tmp, start, end) == SubSeq(tmp, start + 1, end)

slice(linked_list, start, end) ==
    IF linked_list = None
    THEN Outcome(TypeError("LinkedList cannot be None"), linked_list, FALSE)
    ELSE LET size == Len(linked_list[1])
         IN  IF start < 0 \/ start > size
             THEN Outcome(IndexErrorOf(<<"Start index out of bounds: ", start,
                                         " for size: ", size>>),
                          linked_list, FALSE)
             ELSE IF end < 0 \/ end > size
             THEN Outcome(IndexErrorOf(<<"End index out of bounds: ", end,
                                         " for size: ", size>>),
                          linked_list, FALSE)
             ELSE IF start > end
             THEN Outcome(ValueErrorOf(<<"Start index (", start,
                                         ") cannot be greater than end index (",
                                         end, ")">>),
                          linked_list, FALSE)
             ELSE Outcome(Ok(slice_items(Copy(linked_list[1]), start, end)),
                          linked_list, FALSE)

\* ---------------------------------------------- control.single, control.double
\* An int argument that may be None is None or Some(n).

\* if n < 0: raise ValueError ; return n * (n - 1) // 2
\* (None < 0 raises TypeError)
sum_range(n) ==
    IF n = None
    THEN TypeError("'<' not supported between instances of 'NoneType' and 'int'")
    ELSE IF n[1] < 0
    THEN ValueError("n must be non-negative, got: ", n[1])
    ELSE Ok((n[1] * (n[1] - 1)) \div 2)

\* k = (n - 1) // m ; return m * k * (k + 1) // 2
sum_modulus(n, m) ==
    IF n < 0
    THEN ValueError("n must be non-negative, got: ", n)
    ELSE IF m <= 0
    THEN ValueError("Modulus must be positive, got: ", m)
    ELSE LET k == (n - 1) \div m
         IN  Ok((m * k * (k + 1)) \div 2)

\* (n - 1) * n * (2 * n - 1) // 6
sum_square(n) ==
    IF n = None
    THEN TypeError("n cannot be None")
    ELSE IF n[1] < 0
    THEN ValueError("n must be non-negative, got: ", n[1])
    ELSE Ok(((n[1] - 1) * n[1] * (2 * n[1] - 1)) \div 6)

\* (n - 1) * n * (n + 1) // 6
triangle_formula(n) == ((n - 1) * n * (n + 1)) \div 6

sum_triangle(n) ==
    IF n = None
    THEN TypeError("n cannot be None")
    ELSE IF n[1] < 0
    THEN ValueError("n must be non-negative, got: ", n[1])
    ELSE Ok(triangle_formula(n[1]))

\* --------------------------------------------- functions the demos also call

\* max_val = array[0] ; for i in array: if i > max_val: max_val = i
RECURSIVE max_array_loop(_, _, _)
max_array_loop(array, max_val, k) ==
    IF k < Len(array)
    THEN max_array_loop(array,
                        IF At(array, k) > max_val THEN At(array, k) ELSE max_val,
                        k + 1)
    ELSE max_val

max_array(array) ==
    IF array = None
    THEN TypeError("Array cannot be None")
    ELSE IF Len(array[1]) = 0
    THEN ValueErrorOf(<<"Array cannot be empty">>)
    ELSE Ok(max_array_loop(array[1], At(array[1], 0), 0))

\* frequency_map[value] after the first loop of count_pairs
frequency(arr, value) == Cardinality({k \in 1..Len(arr) : arr[k] = value})

\* count of the values whose frequency is 2
count_pairs(arr) ==
    IF arr = None
    THEN TypeError("Array cannot be None")
    ELSE Ok(Cardinality({arr[1][k] : k \in {j \in 1..Len(arr[1]) :
                                              frequency(arr[1], arr[1][j]) = 2}}))

\* count of the indices i with arr0[i] == arr1[i]
count_duplicates(arr0, arr1) ==
    IF arr0 = None
    THEN TypeError("First array cannot be None")
    ELSE IF arr1 = None
    THEN TypeError("Second array cannot be None")
    ELSE IF Len(arr0[1]) # Len(arr1[1])
    THEN ValueErrorOf(<<"Arrays must have equal length, got: ", Len(arr0[1]),
                        " and ", Len(arr1[1])>>)
    ELSE Ok(Cardinality({k \in 1..Len(arr0[1]) : arr0[1][k] = arr1[1][k]}))

\* for i in range(len(vector)): vector[i] = vector[i] + 1 ; return vector
modify_vector(vector) ==
    IF vector = None
    THEN Outcome(TypeError("ArrayList cannot be null"), vector, FALSE)
    ELSE LET modified == [k \in 1..Len(vector[1]) |-> vector[1][k] + 1]
         IN  Outcome(Ok(modified), Some(modified), TRUE)

\* The indices i, ascending, with vector[i] == value.
RECURSIVE search_loop(_, _, _, _)
search_loop(vector, value, indices, i) ==
    IF i < Len(vector)
    THEN search_loop(vector, value,
                     IF At(vector, i) = value THEN Append(indices, i) ELSE indices,
                     i + 1)
    ELSE indices

search_vector(vector, value) ==
    IF vector = None
    THEN TypeError("ArrayList cannot be null")
    ELSE Ok(search_loop(vector[1], value, <<>>, 0))

\* for i in range(len(vector) - 1, -1, -1): result.append(vector[i])
reverse_vector(vector) ==
    IF vector = None
    THEN TypeError("ArrayList cannot be null")
    ELSE Ok([k \in 1..Len(vector[1]) |-> vector[1][Len(vector[1]) + 1 - k]])

\* the elements of vector1, then those of vector2
merge_vectors(vector1, vector2) ==
    IF vector1 = None
    THEN TypeError("First ArrayList cannot be null")
    ELSE IF vector2 = None
    THEN TypeError("Second ArrayList cannot be null")
    ELSE Ok(vector1[1] \o vector2[1])

\* ------------------------------------------------------ callers and lists
\* Every caller runs its call in a frame of its own.  The list objects a
\* call creates live in a store, apart from the frame that names them: the
\* call reads and writes the lists of its own object, and when it returns
\* its locals are dropped and the list it returned stays with the caller.

Callers == {"a", "b"}

ConcArgs == (0 - 1)..MaxConcN

\* The lists a frame names.
ListsOf(f) ==
    [is_prime |-> f.is_prime, sieve |-> f.sieve,
     primes |-> f.primes, factors |-> f.factors]

NoLists == ListsOf(Idle)

\* The frame f with the lists of the object o under its names.
Bind(f, o) ==
    [f EXCEPT !.is_prime = o.is_prime, !.sieve = o.sieve,
              !.primes = o.primes, !.factors = o.factors]

\* Variant of the allocation below where every call works on the same
\* module-level lists.
TableOf_shared(c) == "a"

\* [False] * (n + 1), primes = [], factors = []: the lists a call of caller
\* c creates are objects of that call and of no other.
TableOf(c) == c

\* The operations that return a list, and the name of that list.
ReturnsList == {"generate_sieve", "get_all_primes_up_to", "prime_factors"}

ReturnedField(op) ==
    CASE op = "generate_sieve" -> "is_prime"
      [] op = "get_all_primes_up_to" -> "primes"
      [] op = "prime_factors" -> "factors"

\* The lists left after the statement that produced g: those of the
\* running call, or once it has ended only the list it returned.
Kept(g) ==
    IF g.pc # "done" THEN ListsOf(g)
    ELSE IF g.op \in ReturnsList /\ g.ret.kind = "ok"
    THEN [NoLists EXCEPT ![ReturnedField(g.op)] = g.ret.val[1]]
    ELSE NoLists

\* A caller that has not called: met tells that a statement of its call
\* ran while another caller's call was running, dirty that it has changed
\* the list it was returned, after that its call began after such a change.
Waiting == [call |-> Idle, met |-> FALSE, dirty |-> FALSE, after |-> FALSE]

\* What a caller does to a list it was returned.
Mutations(list, v) ==
    {Append(list, v), <<>>} \cup (IF list = <<>> THEN {} ELSE {SetAt(list, 0, v)})

\* -------------------------------------------------------------------- app
\* A text is the sequence of its characters.  The state of the process
\* running app.main: where main is (pc), the lines it has written to
\* stdout, what it has written to stderr, the exception in flight, the exit
\* status once sys.exit was called, the demos that were started, and
\* random, the state of the random module: the values its next calls of
\* randint will return.

Digits == <<"0", "1", "2", "3", "4", "5", "6", "7", "8", "9">>

RECURSIVE str_digits(_)
str_digits(n) ==
    IF n < 10
    THEN <<Digits[n + 1]>>
    ELSE Append(str_digits(n \div 10), Digits[(n % 10) + 1])

\* str(n) of an int
str_int(n) == IF n < 0 THEN <<"-">> \o str_digits(0 - n) ELSE str_digits(n)

RECURSIVE str_items(_)
str_items(list) ==
    IF Len(list) = 0 THEN <<>>
    ELSE IF Len(list) = 1 THEN str_int(list[1])
    ELSE str_int(list[1]) \o <<",", " ">> \o str_items(Tail(list))

\* str(list) of a list of ints
str_list(list) == <<"[">> \o str_items(list) \o <<"]">>

\* str(b) of a bool
str_bool(b) ==
    IF b THEN <<"T", "r", "u", "e">> ELSE <<"F", "a", "l", "s", "e">>

\* The state of the random module after size calls of randint.
After(random, size) == SubSeq(random, size + 1, Len(random))

\* generate_vector(size, min_val, max_val), each argument None or Some(n),
\* when the calls of random.randint(min_val, max_val) return the values of
\* random in turn.
generate_vector(size, min_val, max_val, random) ==
    IF size = None \/ min_val = None \/ max_val = None
    THEN TypeError("All parameters must be non-None values")
    ELSE IF size[1] < 0
    THEN ValueError("Size cannot be negative: ", size[1])
    ELSE IF min_val[1] > max_val[1]
    THEN ValueErrorOf(<<"min_val (", min_val[1],
                        ") cannot be greater than max_val (", max_val[1], ")">>)
    ELSE Ok([k \in 1..size[1] |-> random[k]])

\* The list a call returned, [] if it raised.
ListOf(ret) == IF ret.kind = "ok" THEN ret.val[1] ELSE <<>>

\* A line of stderr: its fixed text and the parts of the exception's message.
Line(label, args, val) == [label |-> label, args |-> args, val |-> val]

\* The text of the value a call returned.
str_result(ret, type) ==
    IF ret.kind # "ok" THEN <<>>
    ELSE CASE type = "int" -> str_int(ret.val[1])
           [] type = "list" -> str_list(ret.val[1])
           [] type = "bool" -> str_bool(ret.val[1])

\* print(text)
Say(text) == [ret |-> Ok(<<>>), prints |-> TRUE, line |-> text]

\* print(f"{prefix}{call}"): the call is made, then the line printed
Show(prefix, ret, type) ==
    [ret |-> ret, prints |-> TRUE, line |-> prefix \o str_result(ret, type)]

\* a call whose result is not printed by the same statement
Exec(ret) == [ret |-> ret, prints |-> FALSE, line |-> <<>>]

\* The body of single().
single_body ==
    <<Say(<<"S", "i", "n", "g", "l", "e", "F", "o", "r", "L", "o", "o", "p">>),
      Say(<<"-", "-", "-", "-", "-", "-", "-", "-", "-", "-", "-", "-", "-">>),
      Show(<<"S", "u", "m", "R", "a", "n", "g", "e", "(", "1", "0", ")", ":",
             " ">>,
           sum_range(Some(10)), "int"),
      Show(<<"M", "a", "x", "A", "r", "r", "a", "y", "(", "[", "1", ",", " ",
             "2", ",", " ", "3", ",", " ", "4", ",", " ", "5", "]", ")", ":",
             " ">>,
           max_array(Some(<<1, 2, 3, 4, 5>>)), "int"),
      Show(<<"S", "u", "m", "M", "o", "d", "u", "l", "u", "s", "(", "1", "0",
             "0", ",", " ", "3", ")", ":", " ">>,
           sum_modulus(100, 3), "int"),
      Say(<<>>)>>

\* The body of double_().
double_body ==
    <<Say(<<"D", "o", "u", "b", "l", "e", "F", "o", "r", "L", "o", "o", "p">>),
      Say(<<"-", "-", "-", "-", "-", "-", "-", "-", "-", "-", "-", "-", "-">>),
      Show(<<"S", "u", "m", "S", "q", "u", "a", "r", "e", "(", "1", "0", ")",
             ":", " ">>,
           sum_square(Some(10)), "int"),
      Show(<<"S", "u", "m", "T", "r", "i", "a", "n", "g", "l", "e", "(", "1",
             "0", ")", ":", " ">>,
           sum_triangle(Some(10)), "int"),
      Show(<<"C", "o", "u", "n", "t", "P", "a", "i", "r", "s", "(", "[", "1",
             ",", " ", "2", ",", " ", "3", ",", " ", "4", ",", " ", "5", "]",
             ")", ":", " ">>,
           count_pairs(Some(<<1, 2, 3, 4, 5, 2>>)), "int"),
      Show(<<"C", "o", "u", "n", "t", "D", "u", "p", "l", "i", "c", "a", "t",
             "e", "s", "(", "[", "1", ",", " ", "2", ",", " ", "3", ",", " ",
             "4", ",", " ", "5", "]", ",", " ", "[", "1", ",", " ", "3", ",",
             " ", "2", ",", " ", "4", ",", " ", "5", "]", ")", ":", " ">>,
           count_duplicates(Some(<<1, 2, 3, 4, 5>>), Some(<<1, 3, 2, 4, 5>>)),
           "int"),
      Say(<<>>)>>

\* The body of vector(), generated and generated2 what the two calls of
\* generate_vector gave.  An f-string formats input_vec before the call
\* in it is made; modify_vector changes input_vec itself, and the later
\* lines show the changed list.
vector_body(generated, generated2) ==
    LET input_vec == ListOf(generated)
        input_vec2 == ListOf(generated2)
        modified == modify_vector(Some(input_vec))
        vec == modified.data[1]
    IN  <<Exec(generated),
          Exec(generated2),
          Say(<<"V", "e", "c", "t", "o", "r">>),
          Say(<<"-", "-", "-", "-", "-", "-">>),
          Show(<<"M", "o", "d", "i", "f", "y", "V", "e", "c", "t", "o", "r",
                 "(">> \o str_list(input_vec)
                 \o <<")", ":", " ">>,
               modified.ret, "list"),
          Show(<<"S", "e", "a", "r", "c", "h", "V", "e", "c", "t", "o", "r",
                 "(">> \o str_list(vec)
                 \o <<",", " ", "5", ")", ":", " ">>,
               search_vector(Some(vec), 5), "list"),
          Show(<<"S", "o", "r", "t", "V", "e", "c", "t", "o", "r", "(">> \o str_list(vec)
                 \o <<")", ":", " ">>,
               vector_sort_vector(Some(vec)).ret, "list"),
          Show(<<"R", "e", "v", "e", "r", "s", "e", "V", "e", "c", "t", "o",
                 "r", "(">> \o str_list(vec)
                 \o <<")", ":", " ">>,
               reverse_vector(Some(vec)), "list"),
          Show(<<"R", "o", "t", "a", "t", "e", "V", "e", "c", "t", "o", "r",
                 "(">> \o str_list(vec)
                 \o <<",", " ", "3", ")", ":", " ">>,
               rotate_vector(Some(vec), 3).ret, "list"),
          Show(<<"M", "e", "r", "g", "e", "V", "e", "c", "t", "o", "r", "s",
                 "(">> \o str_list(vec)
                 \o <<",", " ">> \o str_list(input_vec2) \o <<")", ":", " ">>,
               merge_vectors(Some(vec), Some(input_vec2)), "list"),
          Say(<<>>)>>

\* The body of primes().
primes_body ==
    <<Say(<<"P", "r", "i", "m", "e", "s">>),
      Say(<<"-", "-", "-", "-", "-", "-">>),
      Show(<<"I", "s", "P", "r", "i", "m", "e", "(", "1", "0", ")", ":", " ">>,
           is_prime(10), "bool"),
      Show(<<"S", "u", "m", "P", "r", "i", "m", "e", "s", "(", "1", "0", ")",
             ":", " ">>,
           sum_primes(10), "int"),
      Show(<<"P", "r", "i", "m", "e", "F", "a", "c", "t", "o", "r", "s", "(",
             "1", "0", ")", ":", " ">>,
           prime_factors(10), "list"),
      Say(<<>>)>>

\* The body of sort(), generated what the call of generate_vector gave:
\* the copies are printed as the calls left them.
sort_body(generated) ==
    LET initial_vec == ListOf(generated)
        sorting == sort_sort_vector(Some(Copy(initial_vec)))
        partition == dutch_flag_partition(Some(Copy(initial_vec)), 5)
    IN  <<Exec(generated),
          Say(<<"S", "o", "r", "t">>),
          Say(<<"-", "-", "-", "-", "-", "-">>),
          Exec(sorting.ret),
          Say(<<"S", "o", "r", "t", "V", "e", "c", "t", "o", "r", "(">> \o str_list(initial_vec)
                \o <<")", ":", " ">> \o str_list(sorting.data[1])),
          Exec(partition.ret),
          Say(<<"D", "u", "t", "c", "h", "F", "l", "a", "g", "P", "a", "r",
                "t", "i", "t", "i", "o", "n", "(">>
                \o str_list(initial_vec) \o <<",", " ", "5", ")", ":", " ">>
                \o str_list(partition.data[1])),
          Show(<<"M", "a", "x", "N", "(">> \o str_list(initial_vec)
                 \o <<",", " ", "5", ")", ":", " ">>,
               max_n(Some(initial_vec), 5).ret, "list"),
          Say(<<>>)>>

\* print raises OSError when the stream cannot be written.
OSError == [kind |-> "OSError", val |-> <<>>, msg |-> <<"write failed">>]

\* main is about to run.
AppStart ==
    [pc |-> "single", stdout |-> <<>>, stderr |-> <<>>, exc |-> NoResult,
     exit_status |-> None, started |-> <<>>, random |-> <<>>]

\* Variant of the order below that runs primes before vector.
NextDemo_primes_first(name) ==
    CASE name = "single" -> "double_"
      [] name = "double_" -> "primes"
      [] name = "primes" -> "vector"
      [] name = "vector" -> "sort"
      [] name = "sort" -> "returned"

\* single() ; double_() ; vector() ; primes() ; sort()
NextDemo(name) ==
    CASE name = "single" -> "double_"
      [] name = "double_" -> "vector"
      [] name = "vector" -> "primes"
      [] name = "primes" -> "sort"
      [] name = "sort" -> "returned"

\* The lines the statements of body print, in order.
Printed(body) ==
    LET shown == SelectSeq(body, LAMBDA x : x.prints)
    IN  [k \in 1..Len(shown) |-> shown[k].line]

\* The first statement of body whose call raises, len(body) + 1 if none.
FirstError(body) ==
    LET errs == {k \in 1..Len(body) : body[k].ret.kind # "ok"}
    IN  IF errs = {} THEN Len(body) + 1
        ELSE CHOOSE k \in errs : \A j \in errs : k <= j

\* One demo, try: body except caught as e: print(message, e) ; raise.
\* The statements of body run in order; cut of them get to print, and
\* statement cut + 1, if there is one, fails in print.  The demo ends at
\* the first statement that raises, or runs to its end.
run_demo(a, name, body, caught, message, cut) ==
    LET e == FirstError(body)
        stop == IF cut + 1 < e THEN cut + 1 ELSE e
        out == a.stdout \o Printed(SubSeq(body, 1, stop - 1))
        exc == IF stop = e THEN body[e].ret ELSE OSError
    IN  IF stop = Len(body) + 1
        THEN [a EXCEPT !.stdout = out, !.started = Append(@, name),
                       !.pc = NextDemo(name)]
        ELSE [a EXCEPT !.stdout = out, !.started = Append(@, name),
                       !.stderr = IF exc.kind \in caught
                                  THEN Append(@, Line(message, <<>>, exc.msg))
                                  ELSE @,
                       !.exc = exc, !.pc = "except"]

\* except Exception as e: print(..., file=sys.stderr) ; sys.exit(1)
main_except(a) ==
    [a EXCEPT !.stderr = @ \o <<Line("Application error: ", <<>>, a.exc.msg),
                                Line("The application encountered an error and will terminate.",
                                     <<>>, <<>>)>>,
              !.exit_status = Some(1), !.pc = "exited"]

\* CLIOutputValidator.EXPECTED_PATTERNS, the patterns (all are required).
EXPECTED_PATTERNS ==
    <<<<"S", "i", "n", "g", "l", "e", "F", "o", "r", "L", "o", "o", "p">>,
      <<"S", "u", "m", "R", "a", "n", "g", "e", "(", "1", "0", ")", ":", " ",
        "4", "5">>,
      <<"M", "a", "x", "A", "r", "r", "a", "y", "(", "[", "1", ",", " ", "2",
        ",", " ", "3", ",", " ", "4", ",", " ", "5", "]", ")", ":", " ", "5">>,
      <<"S", "u", "m", "M", "o", "d", "u", "l", "u", "s", "(", "1", "0", "0",
        ",", " ", "3", ")", ":", " ", "1", "6", "8", "3">>,
      <<"D", "o", "u", "b", "l", "e", "F", "o", "r", "L", "o", "o", "p">>,
      <<"S", "u", "m", "S", "q", "u", "a", "r", "e", "(", "1", "0", ")", ":",
        " ", "2", "0", "2", "5">>,
      <<"S", "u", "m", "T", "r", "i", "a", "n", "g", "l", "e", "(", "1", "0",
        ")", ":", " ", "1", "6", "5">>,
      <<"C", "o", "u", "n", "t", "P", "a", "i", "r", "s">>,
      <<"C", "o", "u", "n", "t", "D", "u", "p", "l", "i", "c", "a", "t", "e",
        "s">>,
      <<"V", "e", "c", "t", "o", "r">>,
      <<"M", "o", "d", "i", "f", "y", "V", "e", "c", "t", "o", "r">>,
      <<"S", "e", "a", "r", "c", "h", "V", "e", "c", "t", "o", "r">>,
      <<"S", "o", "r", "t", "V", "e", "c", "t", "o", "r">>,
      <<"R", "e", "v", "e", "r", "s", "e", "V", "e", "c", "t", "o", "r">>,
      <<"R", "o", "t", "a", "t", "e", "V", "e", "c", "t", "o", "r">>,
      <<"M", "e", "r", "g", "e", "V", "e", "c", "t", "o", "r", "s">>,
      <<"P", "r", "i", "m", "e", "s">>,
      <<"I", "s", "P", "r", "i", "m", "e", "(", "1", "0", ")", ":", " ", "F",
        "a", "l", "s", "e">>,
      <<"S", "u", "m", "P", "r", "i", "m", "e", "s", "(", "1", "0", ")", ":",
        " ", "1", "7">>,
      <<"P", "r", "i", "m", "e", "F", "a", "c", "t", "o", "r", "s", "(", "1",
        "0", ")", ":", " ", "[", "2", ",", " ", "5", "]">>,
      <<"S", "o", "r", "t">>,
      <<"S", "o", "r", "t", "V", "e", "c", "t", "o", "r">>,
      <<"D", "u", "t", "c", "h", "F", "l", "a", "g", "P", "a", "r", "t", "i",
        "t", "i", "o", "n">>,
      <<"M", "a", "x", "N">>>>

\* The output of the process: every printed line, each ended by a newline.
RECURSIVE Output(_)
Output(lines) ==
    IF lines = <<>> THEN <<>> ELSE Head(lines) \o <<"\n">> \o Output(Tail(lines))

\* found = pattern in self.output
Found(output, pattern) ==
    \E k \in 0..(Len(output) - Len(pattern)) :
        SubSeq(output, k + 1, k + Len(pattern)) = pattern

\* ---------------------------------------------------------------- actions

\* No list function has been called.
NoListCall ==
    [op |-> "none", input |-> None, k |-> 0, out |-> Outcome(NoResult, None, FALSE)]

Init ==
    /\ frame = Idle
    /\ steps = 0
    /\ lcall = NoListCall
    /\ threads = [c \in Callers |-> Waiting]
    /\ store = [c \in Callers |-> NoLists]
    /\ app = AppStart

\* A caller calls op(n) when no call is running.
Call(op, n) ==
    /\ frame.pc \in {"idle", "done"}
    /\ frame' = Start(op, n)
    /\ steps' = 0
    /\ UNCHANGED <<lcall, threads, store, app>>

\* One more statement executed.
Count(k) == IF k < StepCap THEN k + 1 ELSE k

\* The active call executes the statement named label.
Do(label, g) ==
    /\ frame.pc = label
    /\ frame' = g
    /\ steps' = Count(steps)
    /\ UNCHANGED <<lcall, threads, store, app>>

CallGenerateSieve == \E n \in Args : Call("generate_sieve", n)
CallIsPrime == \E n \in Args : Call("is_prime", n)
CallSumPrimes == \E n \in Args : Call("sum_primes", n)
CallGetAllPrimesUpTo == \E n \in Args : Call("get_all_primes_up_to", n)
CallPrimeFactors == \E n \in Args : Call("prime_factors", n)
CallSumPrimesUsingSieve == \E n \in Args : Call("sum_primes_using_sieve", n)

GsGuard == Do("gs_guard", gs_guard(frame))
GsSmall == Do("gs_small", gs_small(frame))
GsAlloc == Do("gs_alloc", gs_alloc(frame))
GsInit == Do("gs_init", gs_init(frame))
GsStart == Do("gs_start", gs_start(frame))
GsOuter == Do("gs_outer", gs_outer(frame))
GsTest == Do("gs_test", gs_test(frame))
GsInner == Do("gs_inner", gs_inner(frame))
GsNext == Do("gs_next", gs_next(frame))
GsReturn == Do("gs_return", gs_return(frame))
IpGuard == Do("ip_guard", ip_guard(frame))
IpLookup == Do("ip_lookup", ip_lookup(frame))
SpGuard == Do("sp_guard", sp_guard(frame))
SpSmall == Do("sp_small", sp_small(frame))
SpInit == Do("sp_init", sp_init(frame))
SpLoop == Do("sp_loop", sp_loop(frame))
SpReturn == Do("sp_return", sp_return(frame))
GpGuard == Do("gp_guard", gp_guard(frame))
GpAlloc == Do("gp_alloc", gp_alloc(frame))
GpSmall == Do("gp_small", gp_small(frame))
GpFor == Do("gp_for", gp_for(frame))
GpLoop == Do("gp_loop", gp_loop(frame))
GpReturn == Do("gp_return", gp_return(frame))
PfGuard == Do("pf_guard", pf_guard(frame))
PfAlloc == Do("pf_alloc", pf_alloc(frame))
PfStart == Do("pf_start", pf_start(frame))
PfOuter == Do("pf_outer", pf_outer(frame))
PfInner == Do("pf_inner", pf_inner(frame))
PfNext == Do("pf_next", pf_next(frame))
PfRest == Do("pf_rest", pf_rest(frame))
PfReturn == Do("pf_return", pf_return(frame))
SsGuard == Do("ss_guard", ss_guard(frame))
SsSmall == Do("ss_small", ss_small(frame))
SsInit == Do("ss_init", ss_init(frame))
SsLoop == Do("ss_loop", ss_loop(frame))
SsReturn == Do("ss_return", ss_return(frame))

Next ==
    \/ CallGenerateSieve
    \/ CallIsPrime
    \/ CallSumPrimes
    \/ CallGetAllPrimesUpTo
    \/ CallPrimeFactors
    \/ CallSumPrimesUsingSieve
    \/ GsGuard
    \/ GsSmall
    \/ GsAlloc
    \/ GsInit
    \/ GsStart
    \/ GsOuter
    \/ GsTest
    \/ GsInner
    \/ GsNext
    \/ GsReturn
    \/ IpGuard
    \/ IpLookup
    \/ SpGuard
    \/ SpSmall
    \/ SpInit
    \/ SpLoop
    \/ SpReturn
    \/ GpGuard
    \/ GpAlloc
    \/ GpSmall
    \/ GpFor
    \/ GpLoop
    \/ GpReturn
    \/ PfGuard
    \/ PfAlloc
    \/ PfStart
    \/ PfOuter
    \/ PfInner
    \/ PfNext
    \/ PfRest
    \/ PfReturn
    \/ SsGuard
    \/ SsSmall
    \/ SsInit
    \/ SsLoop
    \/ SsReturn

Spec == Init /\ [][Next]_vars

\* The active call executes its next statement, whichever it is.
Statement ==
    /\ frame.pc \notin {"idle", "done"}
    /\ frame' = Step(frame)
    /\ steps' = Count(steps)
    /\ UNCHANGED <<lcall, threads, store, app>>

\* The interpreter runs a call that has started: an active call always
\* gets to execute its next statement.
FairSpec == Spec /\ WF_vars(Statement)

\* ------------------------------------------------------ concurrent callers

Active(c) == threads[c].call.pc \notin {"idle", "done"}

\* Caller c calls op(n).
ConcCall(c) ==
    /\ threads[c].call.pc = "idle"
    /\ \E op \in Operations, n \in ConcArgs :
          threads' = [threads EXCEPT ![c].call = Start(op, n)]
    /\ UNCHANGED <<frame, steps, lcall, store, app>>

\* The call of caller c executes its next statement on its lists.
ConcStatement(c) ==
    /\ Active(c)
    /\ LET g == Step(Bind(threads[c].call, store[TableOf(c)]))
       IN  /\ threads' = [threads EXCEPT
                             ![c].call = Bind(g, NoLists),
                             ![c].met = @ \/ \E d \in Callers \ {c} : Active(d)]
           /\ store' = [store EXCEPT ![TableOf(c)] = Kept(g)]
    /\ UNCHANGED <<frame, steps, lcall, app>>

CallerCalls == \E c \in Callers : ConcCall(c)

CallerSteps == \E c \in Callers : ConcStatement(c)

ConcNext ==
    \/ CallerCalls
    \/ CallerSteps

ConcSpec == Init /\ [][ConcNext]_vars

\* ------------------------------------------------ one call after another

\* Caller a calls op(n), for the first time or after an earlier call.
SeqCall ==
    /\ threads["a"].call.pc \in {"idle", "done"}
    /\ \E op \in Operations, n \in ConcArgs :
          threads' = [threads EXCEPT
                        !["a"] = [call |-> Start(op, n), met |-> FALSE,
                                  dirty |-> FALSE, after |-> threads["a"].dirty]]
    /\ UNCHANGED <<frame, steps, lcall, store, app>>

SeqStatement == ConcStatement("a")

\* Caller a changes the list its last call returned.
Mutate ==
    /\ threads["a"].call.pc = "done"
    /\ threads["a"].call.op \in ReturnsList
    /\ threads["a"].call.ret.kind = "ok"
    /\ ~threads["a"].dirty
    /\ LET field == ReturnedField(threads["a"].call.op)
           v == IF field = "is_prime" THEN TRUE ELSE 1
       IN  \E m \in Mutations(store[TableOf("a")][field], v) :
               store' = [store EXCEPT ![TableOf("a")][field] = m]
    /\ threads' = [threads EXCEPT !["a"].dirty = TRUE]
    /\ UNCHANGED <<frame, steps, lcall, app>>

SeqNext ==
    \/ SeqCall
    \/ SeqStatement
    \/ Mutate

SeqSpec == Init /\ [][SeqNext]_vars

\* ------------------------------------------------- calls of list functions

Vals == (0 - 1)..MaxVal

Lists == UNION {[1..m -> Vals] : m \in 0..MaxLen}

ListArgs == {None} \cup {Some(list) : list \in Lists}

IntArgs == (0 - 1)..(MaxLen + 1)

\* A caller is about to call a list function on v with second argument k.
ListInit ==
    /\ frame = Idle
    /\ steps = 0
    /\ \E v \in ListArgs, k \in IntArgs :
          lcall = [op |-> "none", input |-> v, k |-> k,
                   out |-> Outcome(NoResult, None, FALSE)]
    /\ threads = [c \in Callers |-> Waiting]
    /\ store = [c \in Callers |-> NoLists]
    /\ app = AppStart

\* The caller calls op and gets its outcome.
ListCall(op, out) ==
    /\ lcall.op = "none"
    /\ lcall' = [lcall EXCEPT !.op = op, !.out = out]
    /\ UNCHANGED <<frame, steps, threads, store, app>>

SortSortVector == ListCall("sort.sort_vector", sort_sort_vector(lcall.input))

VectorSortVector == ListCall("vector.sort_vector", vector_sort_vector(lcall.input))

DutchFlagPartition ==
    ListCall("dutch_flag_partition", dutch_flag_partition(lcall.input, lcall.k))

CallMaxN == ListCall("max_n", max_n(lcall.input, lcall.k))

RotateVector == ListCall("rotate_vector", rotate_vector(lcall.input, lcall.k))

ListNext ==
    \/ SortSortVector
    \/ VectorSortVector
    \/ DutchFlagPartition
    \/ CallMaxN
    \/ RotateVector

ListSpec == ListInit /\ [][ListNext]_vars

\* --------------------------------------------------- calls of slice

\* A caller is about to call slice on v with the indices start and end.
SliceInit ==
    /\ frame = Idle
    /\ steps = 0
    /\ \E v \in ListArgs, start \in IntArgs, end \in IntArgs :
          lcall = [op |-> "none", input |-> v, k |-> start, end |-> end,
                   out |-> Outcome(NoResult, None, FALSE)]
    /\ threads = [c \in Callers |-> Waiting]
    /\ store = [c \in Callers |-> NoLists]
    /\ app = AppStart

Slice == ListCall("slice", slice(lcall.input, lcall.k, lcall.end))

SliceNext == Slice

SliceSpec == SliceInit /\ [][SliceNext]_vars

\* ------------------------------------------- max_n, statement by statement
\* lcall holds the locals of one max_n call: data, min_heap, the loop
\* index i, and calls, the heapreplace calls made so far as
\* [item, root] with root the value of min_heap[0] at the call.

ScanInit ==
    /\ frame = Idle
    /\ steps = 0
    /\ \E v \in ListArgs, n \in IntArgs :
          lcall = [op |-> "max_n", pc |-> "call", input |-> v, k |-> n,
                   data |-> v, min_heap |-> <<>>, i |-> 0, calls |-> <<>>,
                   out |-> Outcome(NoResult, None, FALSE)]
    /\ threads = [c \in Callers |-> Waiting]
    /\ store = [c \in Callers |-> NoLists]
    /\ app = AppStart

\* The argument checks, then min_heap = data[:n].copy(); heapify(min_heap).
MaxNEnter ==
    /\ lcall.pc = "call"
    /\ lcall' =
          IF lcall.data = None \/ lcall.k < 0
          THEN [lcall EXCEPT !.pc = "done", !.out = max_n(lcall.data, lcall.k)]
          ELSE IF ~max_n_accepts(lcall.data[1], lcall.k)
          THEN [lcall EXCEPT !.pc = "done", !.out = max_n(lcall.data, lcall.k)]
          ELSE [lcall EXCEPT !.pc = "scan",
                             !.min_heap = heapify(Copy(Prefix(lcall.data[1], lcall.k))),
                             !.i = lcall.k]
    /\ UNCHANGED <<frame, steps, threads, store, app>>

\* One iteration of for i in range(n, len(data)).
MaxNScan ==
    /\ lcall.pc = "scan"
    /\ lcall.i < Len(lcall.data[1])
    /\ lcall' =
          [lcall EXCEPT
              !.min_heap = max_n_scan(lcall.data[1], @, lcall.i),
              !.calls = IF max_n_replaces(lcall.data[1], lcall.min_heap, lcall.i)
                        THEN Append(@, [item |-> At(lcall.data[1], lcall.i),
                                        root |-> At(lcall.min_heap, 0)])
                        ELSE @,
              !.i = @ + 1]
    /\ UNCHANGED <<frame, steps, threads, store, app>>

\* result = sorted(min_heap, reverse=True); return result
MaxNReturn ==
    /\ lcall.pc = "scan"
    /\ ~(lcall.i < Len(lcall.data[1]))
    /\ lcall' = [lcall EXCEPT
                    !.pc = "done",
                    !.out = Outcome(Ok(sorted_reverse(lcall.min_heap)),
                                    lcall.data, FALSE)]
    /\ UNCHANGED <<frame, steps, threads, store, app>>

ScanNext ==
    \/ MaxNEnter
    \/ MaxNScan
    \/ MaxNReturn

ScanSpec == ScanInit /\ [][ScanNext]_vars

\* ------------------------------------------- calls of the closed formulas

IntOrNone == {None} \cup {Some(n) : n \in Args}

\* A caller is about to call one of the formulas on n.
FormulaInit ==
    /\ frame = Idle
    /\ steps = 0
    /\ \E n \in IntOrNone :
          lcall = [op |-> "none", input |-> n, k |-> 0,
                   out |-> Outcome(NoResult, None, FALSE)]
    /\ threads = [c \in Callers |-> Waiting]
    /\ store = [c \in Callers |-> NoLists]
    /\ app = AppStart

SumRange == ListCall("sum_range", Outcome(sum_range(lcall.input), None, FALSE))

SumSquare == ListCall("sum_square", Outcome(sum_square(lcall.input), None, FALSE))

SumTriangle ==
    ListCall("sum_triangle", Outcome(sum_triangle(lcall.input), None, FALSE))

FormulaNext ==
    \/ SumRange
    \/ SumSquare
    \/ SumTriangle

FormulaSpec == FormulaInit /\ [][FormulaNext]_vars

\* ------------------------------------------------------------ app.main

\* The values the 10 + 10 + 20 calls of random.randint(0, 9) made by main
\* return when the random module was seeded with random.seed(seed), for
\* seed = 0, 1, ... (app.py does not seed it: its state at entry is any
\* state of the generator, of which these are some).
SeededRandom ==
    <<<<6, 6, 0, 4, 8, 7, 6, 4, 7, 5, 9, 3, 8, 2, 4, 2, 1, 9, 4, 8,
        9, 2, 4, 1, 1, 5, 7, 8, 1, 5, 6, 5, 9, 3, 8, 7, 7, 8, 4, 0>>,
      <<2, 9, 1, 4, 1, 7, 7, 7, 6, 3, 1, 7, 0, 6, 6, 9, 0, 7, 4, 3,
        9, 1, 5, 0, 0, 0, 8, 0, 6, 3, 6, 0, 8, 3, 7, 7, 8, 3, 5, 3>>,
      <<0, 1, 1, 5, 2, 4, 4, 9, 3, 9, 0, 9, 2, 6, 6, 8, 5, 8, 7, 8,
        4, 0, 0, 5, 7, 5, 6, 6, 8, 2, 8, 2, 3, 3, 0, 2, 5, 2, 2, 8>>,
      <<3, 9, 8, 2, 5, 9, 7, 9, 1, 9, 0, 7, 4, 8, 3, 3, 7, 8, 8, 7,
        6, 2, 3, 2, 8, 6, 0, 1, 2, 9, 0, 4, 0, 4, 7, 9, 6, 6, 6, 9>>,
      <<3, 4, 1, 6, 7, 2, 1, 1, 0, 6, 8, 4, 0, 3, 8, 8, 5, 4, 2, 1,
        4, 3, 0, 4, 4, 3, 2, 4, 4, 5, 1, 9, 5, 6, 8, 3, 2, 3, 7, 4>>,
      <<9, 4, 5, 8, 0, 7, 3, 0, 2, 1, 5, 7, 3, 6, 8, 1, 9, 3, 0, 3,
        6, 4, 2, 6, 2, 1, 2, 9, 9, 7, 2, 2, 0, 0, 3, 3, 2, 2, 4, 5>>>>

Streams ==
    {SeededRandom[seed + 1] : seed \in {x \in 0..MaxSeed : x < Len(SeededRandom)}}

\* main is about to run, the random module in some state.
AppInit ==
    /\ frame = Idle
    /\ steps = 0
    /\ lcall = NoListCall
    /\ threads = [c \in Callers |-> Waiting]
    /\ store = [c \in Callers |-> NoLists]
    /\ \E random \in Streams : app = [AppStart EXCEPT !.random = random]

\* The demo name runs, its calls of generate_vector making drawn calls of
\* randint: any number of its statements get to print.
Demo(name, body, caught, message, drawn) ==
    /\ app.pc = name
    /\ \E cut \in 0..Len(body) :
          /\ IF cut = Len(body) THEN TRUE ELSE body[cut + 1].prints
          /\ app' = [run_demo(app, name, body, caught, message, cut)
                        EXCEPT !.random = After(@, drawn)]
    /\ UNCHANGED <<frame, steps, lcall, threads, store>>

Single ==
    Demo("single", single_body, {"ValueError", "TypeError"},
         "Error in single loop operations: ", 0)

Double_ ==
    Demo("double_", double_body, {"ValueError", "TypeError"},
         "Error in double loop operations: ", 0)

Vector ==
    LET input_vec == generate_vector(Some(10), Some(0), Some(9), app.random)
        input_vec2 == generate_vector(Some(10), Some(0), Some(9),
                                      After(app.random, 10))
    IN  Demo("vector", vector_body(input_vec, input_vec2),
             {"ValueError", "TypeError"}, "Error in vector operations: ", 10 + 10)

Primes ==
    Demo("primes", primes_body, {"ValueError"}, "Error in prime operations: ", 0)

Sort ==
    LET initial_vec == generate_vector(Some(20), Some(0), Some(9), app.random)
    IN  Demo("sort", sort_body(initial_vec), {"ValueError", "TypeError"},
             "Error in sort operations: ", 20)

MainExcept ==
    /\ app.pc = "except"
    /\ app' = main_except(app)
    /\ UNCHANGED <<frame, steps, lcall, threads, store>>

AppNext ==
    \/ Single
    \/ Double_
    \/ Vector
    \/ Primes
    \/ Sort
    \/ MainExcept

AppSpec == AppInit /\ [][AppNext]_vars

\* ----------------------------------------------------------------- claims

\* k is a prime number.
IsPrimeNumber(k) == k >= 2 /\ \A d \in 2..(k - 1) : k % d # 0

\* The active call has returned or raised.
Finished(op) == frame.op = op /\ frame.pc = "done"

\* C1: for every N >= 0, generate_sieve(N) returns a table of length N + 1
\* whose entry i is true exactly when i is a prime number.
C1_SieveTable ==
    Finished("generate_sieve") /\ frame.arg >= 0 =>
        /\ frame.ret.kind = "ok"
        /\ Len(frame.ret.val[1]) = frame.arg + 1
        /\ \A k \in 0..frame.arg :
              At(frame.ret.val[1], k) = IsPrimeNumber(k)

C1_Witness ==
    /\ Finished("generate_sieve")
    /\ frame.arg = 30
    /\ frame.ret.kind = "ok"
    /\ At(frame.ret.val[1], 25) = FALSE
    /\ At(frame.ret.val[1], 29) = TRUE

\* The elements of a list.
Elements(list) == {list[k] : k \in 1..Len(list)}

\* C2: for every N < 0, generate_sieve, sum_primes, sum_primes_using_sieve
\* and get_all_primes_up_to fail with ValueError; prime_factors fails with
\* ValueError for every N <= 0.
C2_InvalidArgument ==
    frame.pc = "done" =>
        /\ frame.op \in {"generate_sieve", "sum_primes", "sum_primes_using_sieve",
                         "get_all_primes_up_to"} /\ frame.arg < 0
              => frame.ret.kind = "ValueError"
        /\ frame.op = "prime_factors" /\ frame.arg <= 0
              => frame.ret.kind = "ValueError"

C2_Witness ==
    /\ Finished("prime_factors")
    /\ frame.arg = 0
    /\ frame.ret.kind = "ValueError"

\* C3: for every integer N, is_prime(N) returns true exactly when N is a
\* prime number; for N < 2 it returns false and raises nothing.
C3_IsPrime ==
    Finished("is_prime") =>
        /\ frame.ret = Ok(IsPrimeNumber(frame.arg))
        /\ frame.arg < 2 => frame.ret = Ok(FALSE)

C3_Witness ==
    /\ Finished("is_prime")
    /\ frame.arg = 25
    /\ frame.ret = Ok(FALSE)

\* The sum of the primes p with 2 <= p < n.
RECURSIVE SumOfPrimesBelow(_)
SumOfPrimesBelow(n) ==
    IF n <= 2
    THEN 0
    ELSE SumOfPrimesBelow(n - 1) + (IF IsPrimeNumber(n - 1) THEN n - 1 ELSE 0)

\* C4: for every N >= 0, sum_primes(N) is the sum of the primes p with
\* 2 <= p < N (N itself excluded), and 0 for N <= 2.
C4_SumPrimes ==
    Finished("sum_primes") /\ frame.arg >= 0 =>
        /\ frame.ret = Ok(SumOfPrimesBelow(frame.arg))
        /\ frame.arg <= 2 => frame.ret = Ok(0)

C4_Witness ==
    /\ Finished("sum_primes")
    /\ frame.arg = 29
    /\ frame.ret = Ok(100)

\* Two results are the same value returned, or the same kind of error.
SameOutcome(r1, r2) == r1.kind = r2.kind /\ r1.val = r2.val

\* C5: sum_primes and sum_primes_using_sieve return the same integer for
\* every N >= 0 and both fail with ValueError for every N < 0.
C5_SumEntryPointsAgree ==
    /\ Finished("sum_primes") =>
          /\ SameOutcome(frame.ret, sum_primes_using_sieve(frame.arg))
          /\ frame.ret.kind = IF frame.arg < 0 THEN "ValueError" ELSE "ok"
    /\ Finished("sum_primes_using_sieve") =>
          /\ SameOutcome(frame.ret, sum_primes(frame.arg))
          /\ frame.ret.kind = IF frame.arg < 0 THEN "ValueError" ELSE "ok"

C5_Witness ==
    /\ Finished("sum_primes_using_sieve")
    /\ frame.arg = 2
    /\ frame.ret = Ok(0)
    /\ frame.sieve = <<FALSE, FALSE>>
    /\ sum_primes(2) = Ok(0)

\* C6: for every N >= 0, get_all_primes_up_to(N) is the list of the primes
\* p with 2 <= p <= N in strictly ascending order; it is empty for N < 2.
C6_AllPrimesUpTo ==
    Finished("get_all_primes_up_to") /\ frame.arg >= 0 =>
        /\ frame.ret.kind = "ok"
        /\ LET r == frame.ret.val[1]
           IN  /\ \A k \in 1..(Len(r) - 1) : r[k] < r[k + 1]
               /\ Elements(r) = {p \in 2..frame.arg : IsPrimeNumber(p)}
               /\ frame.arg < 2 => r = <<>>

C6_Witness ==
    /\ Finished("get_all_primes_up_to")
    /\ frame.arg = 29
    /\ frame.ret = Ok(<<2, 3, 5, 7, 11, 13, 17, 19, 23, 29>>)

\* C7: for every N >= 0, is_prime(N) is true exactly when N is an element
\* of get_all_primes_up_to(N), and is_prime(p) is true for every element p
\* of get_all_primes_up_to(N).
C7_PrimalityAgreesWithEnumeration ==
    /\ Finished("get_all_primes_up_to") /\ frame.arg >= 0 =>
          /\ frame.ret.kind = "ok"
          /\ is_prime(frame.arg) = Ok(frame.arg \in Elements(frame.ret.val[1]))
          /\ \A p \in Elements(frame.ret.val[1]) : is_prime(p) = Ok(TRUE)
    /\ Finished("is_prime") /\ frame.arg >= 0 =>
          /\ get_all_primes_up_to(frame.arg).kind = "ok"
          /\ frame.ret =
                Ok(frame.arg \in Elements(get_all_primes_up_to(frame.arg).val[1]))

C7_Witness ==
    /\ Finished("get_all_primes_up_to")
    /\ frame.arg = 29
    /\ 29 \in Elements(frame.ret.val[1])
    /\ is_prime(29) = Ok(TRUE)

\* The product of the elements of a list; 1 for the empty list.
RECURSIVE Product(_)
Product(list) ==
    IF list = <<>> THEN 1 ELSE Head(list) * Product(Tail(list))

\* C8: for every N > 0, prime_factors(N) is a non-decreasing list of prime
\* numbers whose product is N (empty for N = 1, <<N>> for N prime).
C8_PrimeFactors ==
    Finished("prime_factors") /\ frame.arg > 0 =>
        /\ frame.ret.kind = "ok"
        /\ LET r == frame.ret.val[1]
           IN  /\ \A k \in 1..(Len(r) - 1) : r[k] <= r[k + 1]
               /\ \A k \in 1..Len(r) : IsPrimeNumber(r[k])
               /\ Product(r) = frame.arg
               /\ frame.arg = 1 => r = <<>>
               /\ IsPrimeNumber(frame.arg) => r = <<frame.arg>>

C8_Witness ==
    /\ Finished("prime_factors")
    /\ frame.arg = 24
    /\ frame.ret = Ok(<<2, 2, 2, 3>>)

\* The argument the operation rejects.
Invalid(op, n) ==
    \/ op \in {"generate_sieve", "sum_primes", "sum_primes_using_sieve",
               "get_all_primes_up_to"} /\ n < 0
    \/ op = "prime_factors" /\ n <= 0

\* C10: on an invalid argument the ValueError is raised by the first
\* statement of the call, before any table, loop step or result element
\* exists; its message carries the offending value; nothing is returned.
C10_FailFast ==
    frame.pc = "done" /\ Invalid(frame.op, frame.arg) =>
        /\ frame.ret.kind = "ValueError"
        /\ steps = 1
        /\ frame = Raise(Start(frame.op, frame.arg), frame.ret)
        /\ frame.ret.msg[2] = frame.arg
        /\ frame.ret.val = <<>>

C10_Witness ==
    /\ Finished("sum_primes")
    /\ frame.arg = -2
    /\ frame.ret = ValueError("Upper bound cannot be negative: ", -2)
    /\ steps = 1

\* The list index the statement at the frame's position is about to use
\* is one of 0..len(list)-1.
IndexWithin(list, k) == 0 <= k /\ k <= Len(list) - 1

\* C11: a valid argument never raises, and every table write in
\* generate_sieve and every table read in is_prime, sum_primes (sieve built
\* for N-1, read for i in 2..N-1), sum_primes_using_sieve and
\* get_all_primes_up_to uses an index within 0..len(table)-1.
C11_NoOtherError ==
    /\ frame.ret.kind \in {"none", "ok", "ValueError"}
    /\ frame.ret.kind = "ValueError" => Invalid(frame.op, frame.arg)
    /\ frame.pc = "gs_init" /\ frame.g_i < frame.g_n + 1
          => IndexWithin(frame.is_prime, frame.g_i)
    /\ frame.pc = "gs_test" => IndexWithin(frame.is_prime, frame.g_i)
    /\ frame.pc = "gs_inner" /\ frame.g_j <= frame.g_n
          => IndexWithin(frame.is_prime, frame.g_j)
    /\ frame.pc = "ip_lookup" => IndexWithin(frame.sieve, frame.n)
    /\ frame.pc \in {"sp_loop", "ss_loop"} /\ frame.i < frame.n
          => Len(frame.sieve) = frame.n /\ IndexWithin(frame.sieve, frame.i)
    /\ frame.pc = "gp_loop" /\ frame.i < frame.n + 1
          => IndexWithin(frame.sieve, frame.i)

C11_Witness ==
    /\ frame.op = "sum_primes"
    /\ frame.pc = "sp_loop"
    /\ frame.arg = 50
    /\ frame.i = 49
    /\ Len(frame.sieve) = 50

\* C12: every call terminates: once a call has started it reaches its
\* return or raise (the sieve loops for N >= 0, the trial-division loops for
\* N > 0 whose bound i * i <= n is tested against the shrinking n).
C12_Terminates ==
    (frame.pc \notin {"idle", "done"}) ~> (frame.pc = "done")

C12_Witness ==
    /\ Finished("prime_factors")
    /\ frame.arg = 48
    /\ frame.n = 3
    /\ frame.ret = Ok(<<2, 2, 2, 2, 3>>)

\* The call of frame f ended as the same call does when it runs alone.
AsAlone(f) == f.ret = Run(Start(f.op, f.arg)).ret

\* C13: when callers run prime operations at the same time, their
\* statements interleaved in any order, every call returns or raises
\* exactly what it does when it runs alone.
C13_ConcurrentCallersSafe ==
    \A c \in Callers : threads[c].call.pc = "done" => AsAlone(threads[c].call)

C13_Witness ==
    /\ threads["a"].call.pc = "done"
    /\ threads["a"].met
    /\ threads["a"].call.op = "generate_sieve"
    /\ threads["a"].call.arg = 5
    /\ threads["a"].call.ret = Ok(<<FALSE, FALSE, TRUE, TRUE, FALSE, TRUE>>)
    /\ threads["b"].call.op = "generate_sieve"
    /\ threads["b"].call.arg = 4
    /\ threads["b"].call.pc = "gs_inner"
    /\ threads["b"].met

\* C9: generate_sieve is deterministic: for every N >= 0 a call
\* generate_sieve(N), whatever calls of the module were made before it and
\* whatever the caller did to the lists they returned, returns the table
\* that generate_sieve(N) returns when it is the only call, equal position
\* by position; so any two calls generate_sieve(N) return equal tables.
C9_SieveDeterministic ==
    LET t == threads["a"].call
        alone == Run(Start("generate_sieve", t.arg)).ret
    IN  t.pc = "done" /\ t.op = "generate_sieve" /\ t.arg >= 0 =>
            /\ t.ret.kind = "ok"
            /\ alone.kind = "ok"
            /\ Len(t.ret.val[1]) = Len(alone.val[1])
            /\ \A k \in 0..(Len(alone.val[1]) - 1) :
                  At(t.ret.val[1], k) = At(alone.val[1], k)

C9_Witness ==
    /\ threads["a"].call.pc = "done"
    /\ threads["a"].after
    /\ threads["a"].call.op = "generate_sieve"
    /\ threads["a"].call.arg = 5
    /\ threads["a"].call.ret = Ok(<<FALSE, FALSE, TRUE, TRUE, FALSE, TRUE>>)

\* C14: over any sequence of calls by one caller, also when the caller
\* has changed the list an earlier call returned, a call's result is the
\* one its argument alone determines: nothing of an earlier call is left
\* in the table or result list of a later one.
C14_NoStateSurvives ==
    LET t == threads["a"]
    IN  t.call.pc = "done" => AsAlone(t.call)

C14_Witness ==
    /\ threads["a"].call.pc = "done"
    /\ threads["a"].after
    /\ threads["a"].call.op = "get_all_primes_up_to"
    /\ threads["a"].call.arg = 1
    /\ threads["a"].call.ret = Ok(<<>>)

\* ------------------------------------------------- claims on list functions

IsAscending(list) == \A k \in 1..(Len(list) - 1) : list[k] <= list[k + 1]

IsDescending(list) == \A k \in 1..(Len(list) - 1) : list[k] >= list[k + 1]

Occurrences(list, x) == Cardinality({k \in 1..Len(list) : list[k] = x})

\* The same elements with the same multiplicities.
IsPermutation(a, b) ==
    /\ Len(a) = Len(b)
    /\ \A x \in Elements(a) \cup Elements(b) : Occurrences(a, x) = Occurrences(b, x)

\* A list function was called on a list (not on None).
CalledOnList(op) == lcall.op = op /\ lcall.input # None

\* C15: after algorithms.sort.sort_vector(v) returns, the caller's list v
\* itself holds its elements in ascending order.
C15_SortsCallersList ==
    CalledOnList("sort.sort_vector") =>
        /\ lcall.out.data # None
        /\ IsAscending(lcall.out.data[1])
        /\ IsPermutation(lcall.out.data[1], lcall.input[1])

\* C16: both sort_vector functions return a new list that is an ascending
\* permutation of the input and leave the input list unmodified.
C16_SortVectorReturnsNewList ==
    CalledOnList("sort.sort_vector") \/ CalledOnList("vector.sort_vector") =>
        /\ lcall.out.ret.kind = "ok"
        /\ IsAscending(lcall.out.ret.val[1])
        /\ IsPermutation(lcall.out.ret.val[1], lcall.input[1])
        /\ lcall.out.data = lcall.input
        /\ ~lcall.out.same

C16_Witness ==
    /\ CalledOnList("sort.sort_vector")
    /\ lcall.input = Some(<<2, 0, 1, 0>>)
    /\ lcall.out.ret = Ok(<<0, 0, 1, 2>>)
    /\ lcall.out.data = Some(<<2, 0, 1, 0>>)

\* Section of an element: 0 below the pivot, 1 equal to it, 2 above it.
Section(x, pivot) == IF x < pivot THEN 0 ELSE IF x = pivot THEN 1 ELSE 2

\* C17: dutch_flag_partition(arr, pivot) returns a new list, a permutation
\* of arr laid out as the elements < pivot, then those == pivot, then those
\* > pivot, and leaves arr unmodified.
C17_DutchFlagPartition ==
    CalledOnList("dutch_flag_partition") =>
        /\ lcall.out.ret.kind = "ok"
        /\ LET r == lcall.out.ret.val[1]
           IN  /\ IsPermutation(r, lcall.input[1])
               /\ \A a, b \in 1..Len(r) :
                     a < b => Section(r[a], lcall.k) <= Section(r[b], lcall.k)
        /\ lcall.out.data = lcall.input
        /\ ~lcall.out.same

C17_Witness ==
    /\ CalledOnList("dutch_flag_partition")
    /\ lcall.input = Some(<<2, 1, 0, 1>>)
    /\ lcall.k = 1
    /\ lcall.out.ret.kind = "ok"
    /\ lcall.out.ret.val[1][1] = 0
    /\ lcall.out.ret.val[1][4] = 2

\* C18: for every n that max_n accepts, max_n(data, n) returns exactly n
\* elements in descending order, the n largest elements of data counted
\* with multiplicity, and data is not modified.
C18_MaxNLargest ==
    CalledOnList("max_n") /\ lcall.out.ret.kind = "ok" =>
        LET r == lcall.out.ret.val[1]
            data == lcall.input[1]
        IN  /\ Len(r) = lcall.k
            /\ IsDescending(r)
            /\ \A x \in Elements(r) : Occurrences(r, x) <= Occurrences(data, x)
            /\ \A x \in Elements(data) :
                  Occurrences(r, x) < Occurrences(data, x)
                      => \A y \in Elements(r) : x <= y
            /\ lcall.out.data = lcall.input
            /\ ~lcall.out.same

C18_Witness ==
    /\ CalledOnList("max_n")
    /\ lcall.input = Some(<<2, 0, 2, 1>>)
    /\ lcall.k = 3
    /\ lcall.out.ret = Ok(<<2, 2, 1>>)

\* C19: max_n raises ValueError for n < 0, n == 0, n greater than the list
\* size and n equal to the list size (message "n must be between 1 ...");
\* an empty list is rejected for every n.
C19_MaxNRejectsSize ==
    /\ CalledOnList("max_n") /\ (lcall.k <= 0 \/ lcall.k >= Len(lcall.input[1]))
          => lcall.out.ret.kind = "ValueError"
    /\ CalledOnList("max_n") /\ lcall.k = Len(lcall.input[1]) /\ lcall.k > 0
          => /\ lcall.out.ret.kind = "ValueError"
             /\ lcall.out.ret.msg[1] = "n must be between 1 and list size ("

\* C20: for every non-empty list v, rotate_vector(v, len(v)) returns the
\* elements of v in their original order.
C20_FullRotationIsIdentity ==
    /\ CalledOnList("rotate_vector")
    /\ lcall.input[1] # <<>>
    /\ lcall.k = Len(lcall.input[1])
    => lcall.out.ret = Ok(lcall.input[1])

\* C21: for every positions >= 0, rotate_vector([], positions) returns []
\* and raises no error.
C21_RotateEmptyList ==
    /\ CalledOnList("rotate_vector")
    /\ lcall.input[1] = <<>>
    /\ lcall.k >= 0
    => lcall.out.ret = Ok(<<>>)

\* C22: for a non-empty list v and 0 <= positions < len(v), rotate_vector
\* returns a new list r of the same length with
\* r[i] == v[(i + positions) mod len(v)] and leaves v unmodified; negative
\* positions and positions greater than the size raise ValueError.
C22_RotateLeft ==
    CalledOnList("rotate_vector") /\ lcall.input[1] # <<>> =>
        LET v == lcall.input[1]
            positions == lcall.k
        IN  /\ 0 <= positions /\ positions < Len(v) =>
                  /\ lcall.out.ret.kind = "ok"
                  /\ Len(lcall.out.ret.val[1]) = Len(v)
                  /\ \A i \in 0..(Len(v) - 1) :
                        At(lcall.out.ret.val[1], i) = At(v, (i + positions) % Len(v))
                  /\ lcall.out.data = lcall.input
                  /\ ~lcall.out.same
            /\ positions < 0 \/ positions > Len(v) =>
                  lcall.out.ret.kind = "ValueError"

C22_Witness ==
    /\ CalledOnList("rotate_vector")
    /\ lcall.input = Some(<<0, 1, 2, 1>>)
    /\ lcall.k = 3
    /\ lcall.out.ret = Ok(<<1, 0, 1, 2>>)
    /\ lcall.out.data = Some(<<0, 1, 2, 1>>)

\* C23: slice signals every invalid index combination with IndexError:
\* negative start, start greater than the size, negative end, end greater
\* than the size, and start greater than end.
C23_SliceIndexError ==
    CalledOnList("slice") =>
        LET size == Len(lcall.input[1])
            start == lcall.k
            end == lcall.end
        IN  (start < 0 \/ start > size \/ end < 0 \/ end > size \/ start > end)
                => lcall.out.ret.kind = "IndexError"

\* C24: for 0 <= start <= end <= size, slice returns a new sequence of
\* length end - start whose k-th element is the input's element at index
\* start + k, and the input is left unchanged; start == end gives an empty
\* result.
C24_SliceElements ==
    CalledOnList("slice") =>
        LET input == lcall.input[1]
            start == lcall.k
            end == lcall.end
        IN  0 <= start /\ start <= end /\ end <= Len(input) =>
                /\ lcall.out.ret.kind = "ok"
                /\ Len(lcall.out.ret.val[1]) = end - start
                /\ \A k \in 0..(end - start - 1) :
                      At(lcall.out.ret.val[1], k) = At(input, start + k)
                /\ lcall.out.data = lcall.input
                /\ ~lcall.out.same

C24_Witness ==
    /\ CalledOnList("slice")
    /\ lcall.input = Some(<<2, 0, 1, 0>>)
    /\ lcall.k = 1
    /\ lcall.end = 3
    /\ lcall.out.ret = Ok(<<0, 1>>)
    /\ lcall.out.data = Some(<<2, 0, 1, 0>>)

\* The triangular number T(k) = k(k+1)/2.
Triangular(k) == (k * (k + 1)) \div 2

\* T(0) + T(1) + ... + T(k), nothing for k < 0.
RECURSIVE TriangularSum(_)
TriangularSum(k) == IF k < 0 THEN 0 ELSE Triangular(k) + TriangularSum(k - 1)

\* sum_triangle was called on the integer n >= 0.
SumTriangleCalled ==
    /\ lcall.op = "sum_triangle"
    /\ lcall.input # None
    /\ lcall.input[1] >= 0

\* C25: for every n >= 0, sum_triangle(n) equals
\* T(0) + T(1) + ... + T(n).
C25_SumTriangleThroughN ==
    SumTriangleCalled => lcall.out.ret = Ok(TriangularSum(lcall.input[1]))

\* ------------------------------------------------------- claims on the app

\* C26: the output of app.main contains every required pattern of the CLI
\* output validator, among them 'SumSquare(10): 2025'.
C26_OutputHasEveryPattern ==
    app.pc = "returned" =>
        LET output == Output(app.stdout)
        IN  \A k \in 1..Len(EXPECTED_PATTERNS) : Found(output, EXPECTED_PATTERNS[k])

DemoOrder == <<"single", "double_", "vector", "primes", "sort">>

\* The lines that open the five sections.
SectionHeaders ==
    <<<<"S", "i", "n", "g", "l", "e", "F", "o", "r", "L", "o", "o", "p">>,
      <<"D", "o", "u", "b", "l", "e", "F", "o", "r", "L", "o", "o", "p">>,
      <<"V", "e", "c", "t", "o", "r">>,
      <<"P", "r", "i", "m", "e", "s">>,
      <<"S", "o", "r", "t">>>>

IsPrefix(a, b) == Len(a) <= Len(b) /\ a = SubSeq(b, 1, Len(a))

\* The section headers among the printed lines, in the order printed.
HeadersIn(lines) ==
    SelectSeq(lines, LAMBDA line :
        \E k \in 1..Len(SectionHeaders) : line = SectionHeaders[k])

\* The number of sections printed to their closing empty line.
Closed(lines) == Len(SelectSeq(lines, LAMBDA line : line = <<>>))

\* C27: main runs single, double_, vector, primes, sort in this order,
\* each only after the one before has finished; once a demo has raised no
\* later demo starts and the process exits with status 1; if none raises
\* the five section headers are printed in order and main returns.
C27_DemosInOrder ==
    /\ [](/\ IsPrefix(app.started, DemoOrder)
          /\ IsPrefix(HeadersIn(app.stdout), SectionHeaders)
          /\ Len(HeadersIn(app.stdout)) <= Len(app.started)
          /\ \A k \in 1..Len(DemoOrder) :
                app.pc = DemoOrder[k] =>
                    /\ Len(app.started) = k - 1
                    /\ Closed(app.stdout) = k - 1
                    /\ app.exit_status = None
          /\ app.pc = "except" => app.exc.kind # "none" /\ app.exit_status = None
          /\ app.pc = "exited" =>
                /\ app.exit_status = Some(1)
                /\ Closed(app.stdout) < Len(app.started)
          /\ app.pc = "returned" =>
                /\ app.started = DemoOrder
                /\ HeadersIn(app.stdout) = SectionHeaders
                /\ app.exit_status = None
                /\ app.stderr = <<>>)
    /\ [][app.pc \in {"except", "exited"} =>
            /\ app'.started = app.started
            /\ app'.stdout = app.stdout
            /\ app'.pc = "exited"]_vars

C27_Witness ==
    /\ app.pc = "exited"
    /\ app.exit_status = Some(1)
    /\ app.started = <<"single", "double_", "vector">>
    /\ HeadersIn(app.stdout) = SubSeq(SectionHeaders, 1, 3)
    /\ Closed(app.stdout) = 2

\* ------------------------------------------------------- loop invariants

\* m is composite with a prime factor smaller than i.
HasPrimeFactorBelow(m, i) ==
    \E q \in 2..(i - 1) : IsPrimeNumber(q) /\ q < m /\ m % q = 0

\* C28: at every step of generate_sieve(N) no prime index has been set to
\* false; when the outer loop reaches a candidate i, every composite
\* m <= N with a prime factor smaller than i is already false, so if
\* table[i] is still true then i is prime and every multiple k * i with
\* 2 <= k < i is already false.
C28_SieveLoopInvariant ==
    LET N == frame.g_n
        table == frame.is_prime
        i == frame.g_i
    IN  /\ frame.pc = "gs_init" =>
              \A p \in 2..(i - 1) : At(table, p) = TRUE
        /\ frame.pc \in {"gs_start", "gs_outer", "gs_test", "gs_inner",
                          "gs_next", "gs_return"} =>
              /\ Len(table) = N + 1
              /\ \A p \in 2..N : IsPrimeNumber(p) => At(table, p) = TRUE
        /\ frame.pc \in {"gs_outer", "gs_test", "gs_inner"} =>
              \A m \in 2..N : HasPrimeFactorBelow(m, i) => At(table, m) = FALSE
        /\ frame.pc \in {"gs_test", "gs_inner"} /\ At(table, i) = TRUE =>
              /\ IsPrimeNumber(i)
              /\ \A k \in 2..(i - 1) : k * i <= N => At(table, k * i) = FALSE

C28_Witness ==
    /\ frame.op = "generate_sieve"
    /\ frame.pc = "gs_test"
    /\ frame.g_n = 50
    /\ frame.g_i = 7
    /\ At(frame.is_prime, 7) = TRUE
    /\ At(frame.is_prime, 35) = FALSE
    /\ At(frame.is_prime, 49) = TRUE

IsNonDecreasing(list) == \A k \in 1..(Len(list) - 1) : list[k] <= list[k + 1]

\* C29: at every step of prime_factors(N), N > 0, the product of the
\* factors appended so far times the remaining n equals N, the factors
\* are non-decreasing and each at most the divisor i, and n has no divisor
\* d with 2 <= d < i; so a remaining value > 1 after the loop is prime and
\* is appended once.
C29_TrialDivisionInvariant ==
    frame.op = "prime_factors" =>
        /\ frame.pc \in {"pf_outer", "pf_inner", "pf_next", "pf_rest"} =>
              /\ Product(frame.factors) * frame.n = frame.arg
              /\ IsNonDecreasing(frame.factors)
              /\ \A x \in Elements(frame.factors) : x <= frame.i
              /\ \A d \in 2..(frame.i - 1) : frame.n % d # 0
        /\ frame.pc = "pf_rest" /\ frame.n > 1 => IsPrimeNumber(frame.n)
        /\ frame.pc = "pf_return" =>
              /\ Product(frame.factors) = frame.arg
              /\ IsNonDecreasing(frame.factors)
              /\ frame.n > 1 =>
                    /\ frame.factors[Len(frame.factors)] = frame.n
                    /\ Product(SubSeq(frame.factors, 1, Len(frame.factors) - 1))
                           * frame.n = frame.arg

C29_Witness ==
    /\ frame.op = "prime_factors"
    /\ frame.pc = "pf_return"
    /\ frame.arg = 12
    /\ frame.factors = <<2, 2, 3>>
    /\ frame.n = 3
    /\ frame.i = 3

\* C30: throughout the scan of max_n the min-heap holds exactly n
\* elements; after data[0..k-1] has been processed (k >= n) the heap is the
\* multiset of the n largest elements of data[0..k-1] and its root is the
\* smallest of them; an element equal to the root never replaces it; the
\* input list data is never written.
C30_BoundedHeap ==
    LET n == lcall.k
        min_heap == lcall.min_heap
        processed == SubSeq(lcall.input[1], 1, lcall.i)
    IN  /\ lcall.data = lcall.input
        /\ lcall.pc = "done" => lcall.out.data = lcall.input
        /\ \A c \in 1..Len(lcall.calls) : lcall.calls[c].item # lcall.calls[c].root
        /\ lcall.pc = "scan" =>
              /\ n <= lcall.i /\ lcall.i <= Len(lcall.input[1])
              /\ Len(min_heap) = n
              /\ \A x \in Elements(min_heap) : At(min_heap, 0) <= x
              /\ \A x \in Elements(processed) :
                    /\ Occurrences(min_heap, x) <= Occurrences(processed, x)
                    /\ Occurrences(min_heap, x) < Occurrences(processed, x)
                          => x <= At(min_heap, 0)
              /\ \A x \in Elements(min_heap) : x \in Elements(processed)

C30_Witness ==
    /\ lcall.input = Some(<<1, 2, 1, 2>>)
    /\ lcall.k = 2
    /\ lcall.pc = "scan"
    /\ lcall.i = 4
    /\ lcall.min_heap = <<2, 2>>
    /\ lcall.calls = <<[item |-> 2, root |-> 1]>>

\* The statement-by-statement run returns what max_n returns.
ScanAgreesWithMaxN ==
    lcall.pc = "done" => lcall.out = max_n(lcall.input, lcall.k)

====
